---- MODULE Spec2Model ----
(***************************************************************************)
(* Correlation and routing engine of efb-telegram-master: the chat link    *)
(* table (ChatAssoc), the message log (MsgLog), the destination resolver   *)
(* of the master message processor and the dispatch path of the slave      *)
(* message processor.                                                      *)
(*                                                                         *)
(* Strings are sequences of one-character tokens, so that formatting       *)
(* ("%s.%s"), prefix matching (startswith) and splitting are computed and  *)
(* not assumed.                                                            *)
(***************************************************************************)
EXTENDS Integers, Sequences, FiniteSets, TLC

VARIABLES
    assoc,      \* ChatAssoc table: rows in insertion (rowid) order
    msglog,     \* MsgLog table: a set of rows, master_msg_id is the primary key
    clock,      \* datetime.now() as seen by MsgLog.time's default
    cache,      \* chat_dest_cache: master chat id -> cached slave chat uid
    local_cache, \* channel.cache as the slave message processor holds it
    queue,      \* tasks handed to db.add_task, oldest first
    tg_next,    \* the id Telegram gives the next message
    out,        \* what the last handler did at its boundary (replies, sends)
    message_queue,          \* Queue of the updates handed to enqueue_message
    message_worker_thread,  \* the worker: what it is doing and on which update
    stopper,    \* where the caller of stop_worker is, and what was enqueued when it called
    handled,    \* the updates the worker is done with, in the order it took them
    issued,     \* how many updates enqueue_message was called with
    whitelist,  \* WhitelistHandler.whitelist: the user ids let through
    flags       \* channel.flag: the experimental flags of the configuration

\* the state of the inbound worker and of its callers
worker_vars == <<message_queue, message_worker_thread, stopper, handled, issued>>

vars == <<assoc, msglog, clock, cache, local_cache, queue, tg_next, out, worker_vars,
          whitelist, flags>>

-----------------------------------------------------------------------------
(* Strings *)

None == <<"None">>              \* Python's None, where a string may stand
NoRow == [found |-> FALSE]      \* Python's None, where a MsgLog row may stand
Dot == <<".">>

\* str.startswith
StartsWith(s, p) == Len(p) <= Len(s) /\ SubSeq(s, 1, Len(p)) = p

\* Python truthiness of an optional string
Truthy(x) == x # None /\ x # <<>>

\* x or y
Or(x, y) == IF Truthy(x) THEN x ELSE y

\* position of the first "." of s, 0 when there is none
FirstDot(s) ==
    IF \E i \in 1..Len(s) : s[i] = "."
    THEN CHOOSE i \in 1..Len(s) : s[i] = "." /\ \A j \in 1..(i - 1) : s[j] # "."
    ELSE 0

\* s.split(".", 1)
Split1(s) ==
    IF FirstDot(s) = 0 THEN <<s>>
    ELSE <<SubSeq(s, 1, FirstDot(s) - 1), SubSeq(s, FirstDot(s) + 1, Len(s))>>

\* utils.message_id_to_str(chat_id, message_id): "%s.%s"
message_id_to_str(chat_id, message_id) == chat_id \o Dot \o message_id

\* utils.message_id_str_to_id: (chat id, message id)
message_id_str_to_id(s) == Split1(s)

\* utils.chat_id_to_str(channel_id, chat_uid): "%(channel_id)s.%(chat_id)s"
chat_id_to_str(channel_id, chat_uid) == channel_id \o Dot \o chat_uid

\* utils.chat_id_str_to_id: (channel id, chat uid)
chat_id_str_to_id(s) == Split1(s)

-----------------------------------------------------------------------------
(* Identifiers the model draws its inputs from *)

channel_id == <<"t">>                       \* the master channel's id
MasterChats == {<<"1">>, <<"1", "2">>}      \* Telegram chat ids "1" and "12"
MasterUids == {chat_id_to_str(channel_id, c) : c \in MasterChats}

SlaveChannels == {<<"a">>, <<"b">>}
SlaveUids == {chat_id_to_str(<<"a">>, <<"1">>),
              chat_id_to_str(<<"b">>, <<"2">>),
              chat_id_to_str(<<"a">>, <<"3">>)}

-----------------------------------------------------------------------------
(* Chat link store: db.py, ChatAssoc *)

Row(m, s) == [master_uid |-> m, slave_uid |-> s]

\* remove_chat_assoc that takes the master when both arguments are given
remove_chat_assoc_Lenient(a, master_uid, slave_uid) ==
    IF Truthy(master_uid)
    THEN [raised |-> FALSE, table |-> SelectSeq(a, LAMBDA r : r.master_uid # master_uid)]
    ELSE [raised |-> FALSE, table |-> SelectSeq(a, LAMBDA r : r.slave_uid # slave_uid)]

\* ChatAssoc.delete().where(...).execute() of remove_chat_assoc; the result is
\* [raised, table]
remove_chat_assoc(a, master_uid, slave_uid) ==
    IF Truthy(master_uid) = Truthy(slave_uid)
    THEN [raised |-> TRUE, table |-> a]
    ELSE IF Truthy(master_uid)
    THEN [raised |-> FALSE, table |-> SelectSeq(a, LAMBDA r : r.master_uid # master_uid)]
    ELSE [raised |-> FALSE, table |-> SelectSeq(a, LAMBDA r : r.slave_uid # slave_uid)]

\* get_chat_assoc; the result is [raised, list]
get_chat_assoc(a, master_uid, slave_uid) ==
    IF Truthy(master_uid) = Truthy(slave_uid)
    THEN [raised |-> TRUE, list |-> <<>>]
    ELSE IF Truthy(master_uid)
    THEN LET slaves == SelectSeq(a, LAMBDA r : r.master_uid = master_uid)
         IN  [raised |-> FALSE, list |-> [i \in 1..Len(slaves) |-> slaves[i].slave_uid]]
    ELSE LET masters == SelectSeq(a, LAMBDA r : r.slave_uid = slave_uid)
         IN  [raised |-> FALSE, list |-> [i \in 1..Len(masters) |-> masters[i].master_uid]]

linksFromMaster(a, m) == get_chat_assoc(a, m, None).list
linksFromSlave(a, s) == get_chat_assoc(a, None, s).list

\* add_chat_assoc with the removal of the master's links dropped
add_chat_assoc_KeepMaster(a, master_uid, slave_uid, multiple_slave) ==
    Append(remove_chat_assoc(a, None, slave_uid).table, Row(master_uid, slave_uid))

\* add_chat_assoc with the removal of the slave's links dropped
add_chat_assoc_KeepSlave(a, master_uid, slave_uid, multiple_slave) ==
    LET a1 == IF ~multiple_slave THEN remove_chat_assoc(a, master_uid, None).table ELSE a
    IN  Append(a1, Row(master_uid, slave_uid))

\* add_chat_assoc that removes the master's links whatever multiple_slave says
add_chat_assoc_AlwaysSingle(a, master_uid, slave_uid, multiple_slave) ==
    Append(remove_chat_assoc(remove_chat_assoc(a, master_uid, None).table, None, slave_uid).table,
           Row(master_uid, slave_uid))

\* add_chat_assoc (both uids non-empty, so neither removal raises)
add_chat_assoc(a, master_uid, slave_uid, multiple_slave) ==
    LET a1 == IF ~multiple_slave THEN remove_chat_assoc(a, master_uid, None).table ELSE a
        a2 == remove_chat_assoc(a1, None, slave_uid).table
    IN  Append(a2, Row(master_uid, slave_uid))

\* link(m, s, allow_multiple)
Link(m, s, multi) ==
    /\ assoc' = add_chat_assoc(assoc, m, s, multi)
    /\ out' = [kind |-> "link", master_uid |-> m, slave_uid |-> s, multiple_slave |-> multi,
               before |-> linksFromMaster(assoc, m), owner |-> linksFromSlave(assoc, s)]
    /\ UNCHANGED <<msglog, clock, cache, local_cache, queue, tg_next, worker_vars, whitelist, flags>>

\* unlink(master_uid=m) or unlink(slave_uid=s)
Unlink(m, s) ==
    /\ ~remove_chat_assoc(assoc, m, s).raised
    /\ assoc' = remove_chat_assoc(assoc, m, s).table
    /\ out' = [kind |-> "unlink", master_uid |-> m, slave_uid |-> s]
    /\ UNCHANGED <<msglog, clock, cache, local_cache, queue, tg_next, worker_vars, whitelist, flags>>

\* remove_chat_assoc(master_uid, slave_uid) with any arguments: the rows are
\* deleted, or ValueError leaves the method
RemoveCall(m, s) ==
    /\ assoc' = remove_chat_assoc(assoc, m, s).table
    /\ out' = [kind |-> "remove_chat_assoc", master_uid |-> m, slave_uid |-> s,
               raised |-> remove_chat_assoc(assoc, m, s).raised]
    /\ UNCHANGED <<msglog, clock, cache, local_cache, queue, tg_next, worker_vars, whitelist, flags>>

\* get_chat_assoc(master_uid, slave_uid) with any arguments: the list is
\* returned, or ValueError leaves the method
LookupCall(m, s) ==
    /\ out' = [kind |-> "get_chat_assoc", master_uid |-> m, slave_uid |-> s,
               raised |-> get_chat_assoc(assoc, m, s).raised,
               list |-> get_chat_assoc(assoc, m, s).list]
    /\ UNCHANGED <<assoc, msglog, clock, cache, local_cache, queue, tg_next, worker_vars, whitelist, flags>>

LinkStep == \E m \in MasterUids, s \in SlaveUids, multi \in BOOLEAN : Link(m, s, multi)

UnlinkStep ==
    \/ \E m \in MasterUids : Unlink(m, None)
    \/ \E s \in SlaveUids : Unlink(None, s)

-----------------------------------------------------------------------------
(* Message log: db.py, MsgLog *)

\* The columns of MsgLog that add_msg_log merges with "new or old"
MergedFields == {"text", "msg_type", "sent_to", "slave_origin_uid",
                 "slave_origin_display_name", "slave_member_uid",
                 "slave_member_display_name", "slave_message_id",
                 "media_type", "file_id", "mime"}

\* The columns declared without null=True
NotNullFields == {"master_msg_id", "slave_message_id", "text", "slave_origin_uid",
                  "msg_type", "sent_to"}

LogFields == MergedFields \cup {"master_msg_id", "master_msg_id_alt", "time"}

\* the row of log with primary key id, NoRow when there is none
RowOf(log, id) ==
    IF \E r \in log : r.master_msg_id = id
    THEN CHOOSE r \in log : r.master_msg_id = id
    ELSE NoRow

\* the merge of an update that appends the new text to the stored one
merge_row_Drift(old, kw) ==
    [f \in LogFields |->
        IF f = "text" THEN old.text \o kw.text
        ELSE IF f \in MergedFields THEN Or(kw[f], old[f])
        ELSE IF f = "master_msg_id_alt" THEN kw.master_msg_id_alt
        ELSE old[f]]

\* the row add_msg_log saves on update: each merged column is "new or old",
\* master_msg_id_alt is the value supplied
merge_row(old, kw) ==
    [f \in LogFields |->
        IF f \in MergedFields THEN Or(kw[f], old[f])
        ELSE IF f = "master_msg_id_alt" THEN kw.master_msg_id_alt
        ELSE old[f]]

\* add_msg_log(**kw) run at time now; the result is [raised, suppressed, log]
add_msg_log(log, kw, now) ==
    IF ~Truthy(kw.slave_message_id)
    THEN [raised |-> FALSE, suppressed |-> TRUE, log |-> log]
    ELSE IF kw.update
    THEN IF RowOf(log, kw.master_msg_id) = NoRow
         THEN [raised |-> TRUE, suppressed |-> FALSE, log |-> log]     \* MsgLog.get: DoesNotExist
         ELSE LET old == RowOf(log, kw.master_msg_id)
              IN  [raised |-> FALSE, suppressed |-> FALSE,
                   log |-> (log \ {old}) \cup {merge_row(old, kw)}]
    ELSE IF \/ RowOf(log, kw.master_msg_id) # NoRow               \* primary key is unique
            \/ \E f \in NotNullFields : kw[f] = None              \* NOT NULL columns
         THEN [raised |-> TRUE, suppressed |-> FALSE, log |-> log]
         ELSE [raised |-> FALSE, suppressed |-> FALSE,
               log |-> log \cup {[f \in LogFields |-> IF f = "time" THEN now ELSE kw[f]]}]

\* the rows a query selects, newest first by time; rows of equal time come in
\* an order the engine picks: every such order
RECURSIVE NewestFirst(_)
NewestFirst(rows) ==
    IF rows = {} THEN {<<>>}
    ELSE UNION {{<<r>> \o rest : rest \in NewestFirst(rows \ {r})} :
                   r \in {x \in rows : \A y \in rows : y.time <= x.time}}

\* get_msg_log: the rows .order_by(time.desc()).first() may return (NoRow when
\* nothing matches); raised for the argument combinations it rejects
get_msg_log(log, master_msg_id, slave_msg_id, slave_origin_uid) ==
    IF \/ (Truthy(master_msg_id) /\ (Truthy(slave_msg_id) \/ Truthy(slave_origin_uid)))
       \/ ~(Truthy(master_msg_id) \/ Truthy(slave_msg_id) \/ Truthy(slave_origin_uid))
       \/ (~Truthy(master_msg_id) /\ ~(Truthy(slave_msg_id) /\ Truthy(slave_origin_uid)))
    THEN [raised |-> TRUE, rows |-> {NoRow}]
    ELSE LET hit == IF Truthy(master_msg_id)
                    THEN {r \in log : r.master_msg_id = master_msg_id}
                    ELSE {r \in log : /\ r.slave_message_id = slave_msg_id
                                      /\ r.slave_origin_uid = slave_origin_uid}
         IN  [raised |-> FALSE,
              rows |-> IF hit = {} THEN {NoRow} ELSE {o[1] : o \in NewestFirst(hit)}]

\* delete_msg_log; the result is [raised, log]
delete_msg_log(log, master_msg_id, slave_msg_id, slave_origin_uid) ==
    IF \/ (Truthy(master_msg_id) /\ (Truthy(slave_msg_id) \/ Truthy(slave_origin_uid)))
       \/ ~(Truthy(master_msg_id) \/ Truthy(slave_msg_id) \/ Truthy(slave_origin_uid))
       \/ (~Truthy(master_msg_id) /\ ~(Truthy(slave_msg_id) /\ Truthy(slave_origin_uid)))
    THEN [raised |-> TRUE, log |-> log]
    ELSE IF Truthy(master_msg_id)
    THEN [raised |-> FALSE, log |-> {r \in log : r.master_msg_id # master_msg_id}]
    ELSE [raised |-> FALSE,
          log |-> {r \in log : ~(/\ r.slave_message_id = slave_msg_id
                                 /\ r.slave_origin_uid = slave_origin_uid)}]

\* the rows of get_recent_slave_chats' WHERE clause, matching on the chat id alone
RecentRows_NoDot(log, master_chat_id) ==
    {r \in log : StartsWith(r.master_msg_id, master_chat_id)}

\* WHERE master_msg_id LIKE "<master_chat_id>.%"
RecentRows(log, master_chat_id) ==
    {r \in log : StartsWith(r.master_msg_id, master_chat_id \o Dot)}

\* MAX(time) of the group of origin o
GroupMax(rows, o) ==
    CHOOSE t \in {r.time : r \in {x \in rows : x.slave_origin_uid = o}} :
        \A r \in {x \in rows : x.slave_origin_uid = o} : r.time <= t

\* GROUP BY slave_origin_uid ORDER BY MAX(time) DESC LIMIT limit: every order
\* the engine may return (groups of equal MAX(time) come in any order)
RECURSIVE RankGroups(_, _, _)
RankGroups(rows, origins, limit) ==
    IF origins = {} \/ limit = 0 THEN {<<>>}
    ELSE UNION {{<<o>> \o rest : rest \in RankGroups(rows, origins \ {o}, limit - 1)} :
                   o \in {x \in origins :
                            \A y \in origins : GroupMax(rows, y) <= GroupMax(rows, x)}}

\* get_recent_slave_chats that sorts oldest first
get_recent_slave_chats_Asc(log, master_chat_id, limit) ==
    LET rows == RecentRows(log, master_chat_id)
        res == RankGroups(rows, {r.slave_origin_uid : r \in rows}, Cardinality(rows))
    IN  {SubSeq([i \in 1..Len(o) |-> o[Len(o) + 1 - i]], 1,
                IF Len(o) < limit THEN Len(o) ELSE limit) : o \in res}

\* get_recent_slave_chats(master_chat_id, limit): the lists it may return
get_recent_slave_chats(log, master_chat_id, limit) ==
    LET rows == RecentRows(log, master_chat_id)
    IN  RankGroups(rows, {r.slave_origin_uid : r \in rows}, limit)

\* Values the model draws the message log's inputs from
MsgKeys == {message_id_to_str(<<"1">>, <<"5">>),
            message_id_to_str(<<"1">>, <<"6">>),
            message_id_to_str(<<"1", "2">>, <<"5">>)}
AltKey == message_id_to_str(<<"1">>, <<"7">>)
SlaveMsgIds == {<<"x">>, <<"y">>}

\* the nullable and type columns, all absent or all given
NoExtras == [msg_type |-> None, sent_to |-> None, slave_origin_display_name |-> None,
             slave_member_uid |-> None, slave_member_display_name |-> None,
             media_type |-> None, file_id |-> None, mime |-> None]
FullExtras == [msg_type |-> <<"T">>, sent_to |-> <<"s">>, slave_origin_display_name |-> <<"n">>,
               slave_member_uid |-> <<"u">>, slave_member_display_name |-> <<"d">>,
               media_type |-> <<"m">>, file_id |-> <<"f">>, mime |-> <<"i">>]

\* the keyword arguments of one add_msg_log call
Kwargs(id, alt, smi, origin, text, extras, update) ==
    [f \in LogFields \cup {"update"} |->
        CASE f = "master_msg_id" -> id
          [] f = "master_msg_id_alt" -> alt
          [] f = "slave_message_id" -> smi
          [] f = "slave_origin_uid" -> origin
          [] f = "text" -> text
          [] f = "update" -> update
          [] f = "time" -> None
          [] OTHER -> extras[f]]

\* the optional columns of one call: none given, all given, or text and origin alone
Payloads ==
    {[text |-> <<>>, origin |-> None, extras |-> NoExtras],
     [text |-> <<"h">>, origin |-> chat_id_to_str(<<"a">>, <<"1">>), extras |-> FullExtras],
     [text |-> <<"g">>, origin |-> chat_id_to_str(<<"b">>, <<"2">>), extras |-> NoExtras]}

\* calls of put that exercise the merge
PutInputs ==
    {Kwargs(id, alt, smi, p.origin, p.text, p.extras, update) :
        id \in {message_id_to_str(<<"1">>, <<"5">>), message_id_to_str(<<"1">>, <<"6">>)},
        alt \in {None, AltKey},
        smi \in SlaveMsgIds \cup {None},
        p \in Payloads,
        update \in BOOLEAN}

\* calls of put that log traffic of several slave chats in several master chats
TrafficInputs ==
    {Kwargs(id, None, <<"x">>, origin, <<"h">>, FullExtras, update) :
        id \in MsgKeys, origin \in SlaveUids, update \in BOOLEAN}

MaxClock == 2       \* how far the clock runs

\* put(record, update): one call of add_msg_log
Put(kw) ==
    /\ msglog' = add_msg_log(msglog, kw, clock).log
    /\ out' = [kind |-> "put", kw |-> kw,
               raised |-> add_msg_log(msglog, kw, clock).raised,
               suppressed |-> add_msg_log(msglog, kw, clock).suppressed,
               again |-> (out.kind = "put" /\ out.kw = kw)]
    /\ UNCHANGED <<assoc, clock, cache, local_cache, queue, tg_next, worker_vars, whitelist, flags>>

\* delete(by master_msg_id) and delete(by slave_message_id, slave_origin_uid)
Delete(id, smi, origin) ==
    /\ ~delete_msg_log(msglog, id, smi, origin).raised
    /\ msglog' = delete_msg_log(msglog, id, smi, origin).log
    /\ out' = [kind |-> "delete", id |-> id, smi |-> smi, origin |-> origin]
    /\ UNCHANGED <<assoc, clock, cache, local_cache, queue, tg_next, worker_vars, whitelist, flags>>

\* time passes
Tick ==
    /\ clock < MaxClock
    /\ clock' = clock + 1
    /\ UNCHANGED <<assoc, msglog, cache, local_cache, queue, tg_next, out, worker_vars, whitelist, flags>>

PutStep == \E kw \in PutInputs : Put(kw)

TrafficStep == \E kw \in TrafficInputs : Put(kw)

DeleteStep ==
    \/ \E id \in MsgKeys : Delete(id, None, None)
    \/ \E smi \in SlaveMsgIds, origin \in SlaveUids : Delete(None, smi, origin)

-----------------------------------------------------------------------------
(* Deferred writes: db.add_task and the pending sentinel *)

FAIL_FLAG == <<"__fail__">>

\* the slave_message_id written for a relay that got no slave-side id
Sentinel(now) == FAIL_FLAG \o Dot \o <<ToString(now)>>

IsSentinel(smi) == StartsWith(smi, FAIL_FLAG \o Dot)

MaxQueue == 2       \* writes that may wait in the queue

\* add_task that puts the task ahead of the waiting ones
add_task_Front(q, task) == <<task>> \o q

\* db.add_task(fn, args, kwargs)
add_task(q, task) == Append(q, task)

\* db.add_or_update_message_log(m, message), as the writer applies it: one row
\* per master_msg_id, created on the first relay attempt and updated on edit;
\* a relay with no slave-side id is written with the sentinel
add_or_update_message_log(log, t, now) ==
    LET smi == IF Truthy(t.uid) THEN t.uid ELSE Sentinel(now)
        old == RowOf(log, t.master_msg_id)
        kw == Kwargs(t.master_msg_id, None, smi, t.origin, t.text,
                     [NoExtras EXCEPT !.msg_type = <<"T">>, !.sent_to = <<"s">>], FALSE)
    IN  IF old = NoRow
        THEN log \cup {[f \in LogFields |-> IF f = "time" THEN now ELSE kw[f]]}
        ELSE (log \ {old}) \cup {merge_row(old, kw)}

\* the writer thread applies the oldest task
Writer ==
    /\ queue # <<>>
    /\ msglog' = IF Head(queue).fn = "add_msg_log"
                 THEN add_msg_log(msglog, Head(queue).kw, clock).log
                 ELSE add_or_update_message_log(msglog, Head(queue), clock)
    /\ queue' = Tail(queue)
    /\ UNCHANGED <<assoc, clock, cache, local_cache, tg_next, out, worker_vars, whitelist, flags>>

-----------------------------------------------------------------------------
(* Recent-destination cache: chat_dest_cache *)

NoEntry == [dest |-> None, warned |-> FALSE]

cache_get(c, chat) == c[chat].dest
cache_set(c, chat, dest) == [c EXCEPT ![chat] = [dest |-> dest, warned |-> FALSE]]
cache_set_warned(c, chat) == [c EXCEPT ![chat].warned = TRUE]
cache_remove(c, chat) == [c EXCEPT ![chat] = NoEntry]

-----------------------------------------------------------------------------
(* Inbound: master_message.py, MasterMessageProcessor.msg *)

DELETE_FLAG == <<"r", "m", "BQ">>       \* rm followed by a backquote
SuggestLimit == 5       \* limit=5 and [:5] of the candidate suggestions

\* get_singly_linked_chat_id_str(chat)
get_singly_linked_chat_id_str(a, chat) ==
    LET chats == get_chat_assoc(a, chat_id_to_str(channel_id, chat), None).list
    IN  IF Len(chats) = 1 THEN chats[1] ELSE None

\* msg, lines 142-147: the edit is refused
edit_rejected(row) == row = NoRow \/ row.slave_message_id = FAIL_FLAG

\* the destination decision of msg that looks at the reply before the link
resolve_ReplyFirst(a, log, c, u) ==
    LET single == get_singly_linked_chat_id_str(a, u.chat)
        reply_row == IF u.reply_to = None THEN NoRow
                     ELSE RowOf(log, message_id_to_str(u.chat, u.reply_to))
    IN  IF reply_row # NoRow
        THEN [destination |-> reply_row.slave_origin_uid, via |-> "reply", quote |-> FALSE,
              edited |-> NoRow]
        ELSE [destination |-> single, via |-> "single", quote |-> FALSE, edited |-> NoRow]

\* the destination decision of msg that looks at the cache before the reply
resolve_CacheFirst(a, log, c, u) ==
    LET edited == IF u.edited THEN RowOf(log, message_id_to_str(u.chat, u.message_id)) ELSE NoRow
        single == get_singly_linked_chat_id_str(a, u.chat)
        reply_row == IF u.reply_to = None THEN NoRow
                     ELSE RowOf(log, message_id_to_str(u.chat, u.reply_to))
        cached_dest == cache_get(c, u.chat)
    IN  IF edited # NoRow
        THEN [destination |-> edited.slave_origin_uid, via |-> "edit",
              quote |-> u.reply_to # None, edited |-> edited]
        ELSE IF single # None
        THEN [destination |-> single, via |-> "single", quote |-> u.reply_to # None,
              edited |-> NoRow]
        ELSE IF Truthy(cached_dest)
        THEN [destination |-> cached_dest, via |-> "cache", quote |-> FALSE, edited |-> NoRow]
        ELSE IF reply_row # NoRow
        THEN [destination |-> reply_row.slave_origin_uid, via |-> "reply",
              quote |-> FALSE, edited |-> NoRow]
        ELSE [destination |-> None, via |-> "none", quote |-> FALSE, edited |-> NoRow]

\* msg, lines 139-175: the destination, how it was found, whether the message
\* quotes, and the row an edit targets (the edit was not refused)
resolve(a, log, c, u) ==
    LET edited == IF u.edited THEN RowOf(log, message_id_to_str(u.chat, u.message_id)) ELSE NoRow
        single == get_singly_linked_chat_id_str(a, u.chat)
        reply_row == IF u.reply_to = None THEN NoRow
                     ELSE RowOf(log, message_id_to_str(u.chat, u.reply_to))
        cached_dest == cache_get(c, u.chat)
    IN  IF edited # NoRow
        THEN [destination |-> edited.slave_origin_uid, via |-> "edit",
              quote |-> u.reply_to # None, edited |-> edited]
        ELSE IF single # None
        THEN [destination |-> single, via |-> "single", quote |-> u.reply_to # None,
              edited |-> NoRow]
        ELSE IF u.reply_to # None
        THEN IF reply_row # NoRow
             THEN [destination |-> reply_row.slave_origin_uid, via |-> "reply",
                   quote |-> FALSE, edited |-> NoRow]
             ELSE [destination |-> None, via |-> "none", quote |-> FALSE, edited |-> NoRow]
        ELSE IF Truthy(cached_dest)
        THEN [destination |-> cached_dest, via |-> "cache", quote |-> FALSE, edited |-> NoRow]
        ELSE [destination |-> None, via |-> "none", quote |-> FALSE, edited |-> NoRow]

\* the candidates of msg with the two sources swapped
candidates_LinksFirst(a, log, chat) ==
    LET links == get_chat_assoc(a, chat_id_to_str(channel_id, chat), None).list
        recent == get_recent_slave_chats(log, chat, SuggestLimit)
    IN  IF links # <<>>
        THEN {SubSeq(links, 1, IF Len(links) < SuggestLimit THEN Len(links) ELSE SuggestLimit)}
        ELSE recent

\* msg, lines 181-184: the candidate lists get_recent_slave_chats(...) or
\* get_chat_assoc(...)[:5] may evaluate to
candidates(a, log, chat) ==
    LET links == get_chat_assoc(a, chat_id_to_str(channel_id, chat), None).list
        recent == get_recent_slave_chats(log, chat, SuggestLimit)
    IN  IF recent # {<<>>}
        THEN recent
        ELSE {SubSeq(links, 1, IF Len(links) < SuggestLimit THEN Len(links) ELSE SuggestLimit)}

\* attach_target_message without the channel check
attach_target_message_AnyChannel(log, u, channel) ==
    LET target_log == RowOf(log, message_id_to_str(u.chat, u.reply_to))
    IN  IF target_log = NoRow \/ ~Truthy(target_log.slave_origin_uid) THEN None
        ELSE target_log.master_msg_id

\* attach_target_message: the row whose message becomes m.target, None when
\* quoting is given up
attach_target_message(log, u, channel) ==
    LET target_log == RowOf(log, message_id_to_str(u.chat, u.reply_to))
    IN  IF target_log = NoRow \/ ~Truthy(target_log.slave_origin_uid) THEN None
        ELSE IF chat_id_str_to_id(target_log.slave_origin_uid)[1] # channel THEN None
        ELSE target_log.master_msg_id

\* what a handler of the master side did, with what it saw of the link table
\* and of the log rows of the edited and of the replied-to message
InboundOut(u, result, r, cands, sent, sent_uid, target, removal, logged, warned) ==
    LET edit_row == IF u.edited THEN RowOf(msglog, message_id_to_str(u.chat, u.message_id))
                    ELSE NoRow
        reply_row == IF u.reply_to = None THEN NoRow
                     ELSE RowOf(msglog, message_id_to_str(u.chat, u.reply_to))
    IN  [kind |-> "inbound", chat |-> u.chat, edited |-> u.edited, reply_to |-> u.reply_to,
         result |-> result, via |-> r.via,
         destination |-> r.destination, quote |-> r.quote, candidates |-> cands,
         sent |-> sent, sent_uid |-> sent_uid, target |-> target, removal |-> removal,
         logged |-> logged, warned |-> warned,
         edit_smi |-> IF edit_row = NoRow THEN None ELSE edit_row.slave_message_id,
         edit_origin |-> IF edit_row = NoRow THEN None ELSE edit_row.slave_origin_uid,
         reply_origin |-> IF reply_row = NoRow THEN None ELSE reply_row.slave_origin_uid]

\* the write with m.uid left as line 235 set it
message_log_MasterUid(mid, uid, destination, text) ==
    [fn |-> "add_or_update_message_log", master_msg_id |-> mid,
     uid |-> mid, origin |-> destination, text |-> text]

\* process_telegram_message, lines 386-388: the write of m and of the
\* Telegram message; m.uid is the id the slave returned (line 370), else None
\* (line 372), else the id line 235 or the edited row gave; m.chat is the
\* destination (line 250)
message_log(mid, uid, destination, text) ==
    [fn |-> "add_or_update_message_log", master_msg_id |-> mid,
     uid |-> uid, origin |-> destination, text |-> text]

\* process_telegram_message(update, context, destination, quote, edited)
process_telegram_message(u, r, warned) ==
    LET mid == message_id_to_str(u.chat, u.message_id)
        channel == chat_id_str_to_id(r.destination)[1]
        target == IF r.quote THEN attach_target_message(msglog, u, channel) ELSE None
        uid0 == IF r.edited # NoRow THEN r.edited.slave_message_id ELSE mid
        log_task(uid) == message_log(mid, uid, r.destination, u.text)
    IN  IF channel \notin SlaveChannels
        THEN /\ out' = InboundOut(u, "no_channel", r, <<>>, FALSE, None, None, FALSE, FALSE, warned)
             /\ UNCHANGED queue
        ELSE IF u.outcome = "badtype"
        THEN /\ out' = InboundOut(u, "error", r, <<>>, FALSE, None, None, FALSE, TRUE, warned)
             /\ queue' = add_task(queue, log_task(mid))
        ELSE IF r.edited # NoRow /\ StartsWith(u.text, DELETE_FLAG)
        THEN IF u.outcome = "raise"
             THEN /\ out' = InboundOut(u, "error", r, <<>>, FALSE, uid0, target, FALSE, TRUE, warned)
                  /\ queue' = add_task(queue, log_task(uid0))
             ELSE /\ out' = InboundOut(u, "removed", r, <<>>, FALSE, uid0, target, TRUE, FALSE, warned)
                  /\ UNCHANGED queue
        ELSE IF u.outcome = "raise"
        THEN /\ out' = InboundOut(u, "error", r, <<>>, FALSE, uid0, target, FALSE, TRUE, warned)
             /\ queue' = add_task(queue, log_task(uid0))
        ELSE /\ out' = InboundOut(u, "relayed", r, <<>>, TRUE, uid0, target, FALSE, TRUE, warned)
             /\ queue' = add_task(queue, log_task(IF u.outcome = "nouid" THEN None ELSE u.new_uid))

\* _send_cached_chat_warning that does not look at the warned mark
send_cached_chat_warning_Always(c, cache_key) ==
    flags.send_to_last_chat = "warn"

\* _send_cached_chat_warning(update, cache_key, cached_dest): whether the
\* warning is sent, and the entry marked as warned
send_cached_chat_warning(c, cache_key) ==
    flags.send_to_last_chat = "warn" /\ ~c[cache_key].warned

\* msg(update, context): one update taken off the message queue
Inbound(u) ==
    LET edited_row == RowOf(msglog, message_id_to_str(u.chat, u.message_id))
        r == resolve(assoc, msglog, cache, u)
        nothing == [destination |-> None, via |-> "none", quote |-> FALSE, edited |-> NoRow]
    IN  /\ Len(queue) < MaxQueue
        /\ tg_next' = IF u.edited THEN tg_next ELSE tg_next + 1
        /\ UNCHANGED <<assoc, msglog, clock, local_cache, whitelist, flags>>
        /\ IF u.edited /\ edit_rejected(edited_row)
           THEN /\ out' = InboundOut(u, "rejected", nothing, <<>>, FALSE, None, None, FALSE, FALSE, FALSE)
                /\ UNCHANGED <<cache, queue>>
           ELSE IF r.destination = None
           THEN /\ \E cands \in candidates(assoc, msglog, u.chat) :
                       out' = InboundOut(u, IF cands # <<>> THEN "prompt" ELSE "no_recipient",
                                         r, cands, FALSE, None, None, FALSE, FALSE, FALSE)
                /\ UNCHANGED <<cache, queue>>
           ELSE LET warn == r.via = "cache" /\ send_cached_chat_warning(cache, u.chat)
                IN  /\ cache' = IF r.via = "reply" THEN cache_set(cache, u.chat, r.destination)
                                ELSE IF warn THEN cache_set_warned(cache, u.chat)
                                ELSE cache
                    /\ process_telegram_message(u, r, warn)

MaxMsgs == 2        \* Telegram message ids in use

IdStr(n) == <<ToString(n)>>
Plain == <<"h">>
AdapterUids == {<<"x">>}           \* ids a slave gives the messages it takes
InboundChats == {<<"1">>}
InboundSlaves == {chat_id_to_str(<<"a">>, <<"1">>), chat_id_to_str(<<"b">>, <<"2">>)}

\* the updates Telegram may deliver next: a new message takes the next
\* Telegram id, an edit names a message sent before; a reply names an earlier
\* message of the chat; the delete flag only matters in an edit
UpdatesUpTo(n, texts, outcomes) ==
    {u \in [chat : InboundChats, message_id : {IdStr(i) : i \in 1..n}, edited : BOOLEAN,
            reply_to : {None} \cup {IdStr(i) : i \in 1..n}, text : texts,
            outcome : outcomes, new_uid : AdapterUids] :
        /\ \E i \in 1..n : u.message_id = IdStr(i) /\ i <= tg_next /\ (u.edited <=> i < tg_next)
        /\ u.reply_to # None => \E i \in 1..n : u.reply_to = IdStr(i) /\ i < tg_next
        /\ u.reply_to # u.message_id
        /\ StartsWith(u.text, DELETE_FLAG) => u.edited}

UpdatesOf(texts, outcomes) == UpdatesUpTo(MaxMsgs, texts, outcomes)

\* updates whose relay the slave takes, with or without giving an id
InboundStep ==
    /\ \E u \in UpdatesOf({Plain}, {"ok", "nouid"}) : Inbound(u)
    /\ UNCHANGED worker_vars

-----------------------------------------------------------------------------
(* Inbound worker: master_message.py, message_worker and its callers *)

MaxUpdates == 3     \* updates handed to enqueue_message

Poison == 0         \* the None that stop_worker puts in the queue

\* the worker blocked in message_queue.get()
Waiting_for_update == [state |-> "waiting", item |-> Poison]

\* is_alive that only counts a worker at work on an update
is_alive_Busy(t) == t.state = "busy"

\* Thread.is_alive()
is_alive(t) == t.state \in {"waiting", "busy"}

\* Queue.get() that takes the newest item
get_Newest(q) == [content |-> q[Len(q)], rest |-> SubSeq(q, 1, Len(q) - 1)]

\* Queue.get(): the oldest item
get(q) == [content |-> Head(q), rest |-> Tail(q)]

\* enqueue_message that does not look at the worker
enqueue_notice_Silent(t) == FALSE

\* enqueue_message, lines 123-127: the reply that the worker is not running;
\* the handler is registered for message updates, which have an
\* effective_message
enqueue_notice(t) == ~is_alive(t)

\* enqueue_message(update, context): put never waits, the queue is unbounded
enqueue_message ==
    /\ issued < MaxUpdates
    /\ issued' = issued + 1
    /\ message_queue' = Append(message_queue, issued + 1)
    /\ out' = [kind |-> "enqueue", update |-> issued + 1,
               worker |-> message_worker_thread.state,
               notified |-> enqueue_notice(message_worker_thread)]
    /\ UNCHANGED <<whitelist, flags, assoc, msglog, clock, cache, local_cache, queue, tg_next,
                   message_worker_thread, stopper, handled>>

\* message_worker, lines 97-101: the worker takes the next item; None ends it
worker_get ==
    /\ message_worker_thread.state = "waiting"
    /\ message_queue # <<>>
    /\ message_queue' = get(message_queue).rest
    /\ message_worker_thread' =
          IF get(message_queue).content = Poison
          THEN [state |-> "returned", item |-> Poison]
          ELSE [state |-> "busy", item |-> get(message_queue).content]
    /\ UNCHANGED <<whitelist, flags, assoc, msglog, clock, cache, local_cache, queue, tg_next, out,
                   stopper, handled, issued>>

\* message_worker, lines 102-103 and 112-113: msg(update, context) returns
worker_msg ==
    /\ message_worker_thread.state = "busy"
    /\ \E u \in UpdatesOf({Plain}, {"ok"}) : Inbound(u)
    /\ message_worker_thread' = Waiting_for_update
    /\ handled' = Append(handled, message_worker_thread.item)
    /\ UNCHANGED <<message_queue, stopper, issued>>

\* message_worker, lines 104-113: msg raised; the error is logged and
\* reported with reply_text. When reply_text raises as well, the exception
\* leaves the except clause: finally runs task_done and the thread ends.
worker_except(report) ==
    /\ message_worker_thread' =
          IF report = "ok" THEN Waiting_for_update
          ELSE [state |-> "died", item |-> message_worker_thread.item]
    /\ handled' = Append(handled, message_worker_thread.item)

\* msg raises before it changed anything (a reply_text of msg fails, or a
\* query of the database does)
worker_raise ==
    /\ message_worker_thread.state = "busy"
    /\ \E report \in {"ok", "raise"} :
          /\ worker_except(report)
          /\ out' = [kind |-> "worker_error", update |-> message_worker_thread.item,
                     logged |-> TRUE, reported |-> report = "ok"]
    /\ UNCHANGED <<whitelist, flags, assoc, msglog, clock, cache, local_cache, queue, tg_next,
                   message_queue, stopper, issued>>

\* stop_worker, lines 116-118: nothing to do for a worker that is not alive,
\* else the poison is put and the caller joins the thread
stop_worker ==
    /\ stopper.pc = "idle"
    /\ IF ~is_alive(message_worker_thread)
       THEN /\ stopper' = [pc |-> "returned", before |-> issued, pending |-> 0]
            /\ UNCHANGED message_queue
       ELSE /\ stopper' = [pc |-> "joining", before |-> issued,
                            pending |-> Len(message_queue)]
            /\ message_queue' = Append(message_queue, Poison)
    /\ UNCHANGED <<whitelist, flags, assoc, msglog, clock, cache, local_cache, queue, tg_next, out,
                   message_worker_thread, handled, issued>>

\* stop_worker, line 119: join returns once the thread has ended
stop_worker_join ==
    /\ stopper.pc = "joining"
    /\ ~is_alive(message_worker_thread)
    /\ stopper' = [stopper EXCEPT !.pc = "returned"]
    /\ UNCHANGED <<whitelist, flags, assoc, msglog, clock, cache, local_cache, queue, tg_next, out,
                   message_queue, message_worker_thread, handled, issued>>

-----------------------------------------------------------------------------
(* Whitelist: whitelisthandler.py, WhitelistHandler *)

UserIds == {7, 8, 9}        \* Telegram user ids
NoUser == 0                 \* update.effective_user is None

\* ChatMember.status as getChatMember may give it
MemberStatuses == {"creator", "administrator", "member", "restricted", "left", "kicked"}

\* check_update(update): "block" when it returns True and the handler takes
\* the update, "pass" when it returns False, "raise" when update.message is
\* None at line 39; status is what getChatMember answers
check_update(wl, update, status) ==
    IF ~update.is_update THEN "pass"
    ELSE IF update.effective_user = NoUser THEN "block"
    ELSE IF update.effective_user \in wl THEN "pass"
    ELSE IF ~update.has_message THEN "raise"
    ELSE IF status # "administrator" THEN "block" ELSE "pass"

\* whether check_update gets as far as getChatMember
asks_member(wl, update) ==
    /\ update.is_update /\ update.effective_user # NoUser
    /\ update.effective_user \notin wl /\ update.has_message

\* what the dispatcher may hand the handler
CheckedUpdates ==
    [is_update : BOOLEAN, effective_user : UserIds \cup {NoUser}, has_message : BOOLEAN]

\* one update offered to the handler
CheckUpdate(update) ==
    /\ \E status \in MemberStatuses :
          out' = [kind |-> "check_update", update |-> update,
                  listed |-> update.effective_user \in whitelist,
                  status |-> IF asks_member(whitelist, update) THEN status ELSE "",
                  result |-> check_update(whitelist, update, status)]
    /\ UNCHANGED <<assoc, msglog, clock, cache, local_cache, queue, tg_next, worker_vars,
                   whitelist, flags>>

CheckUpdateStep == \E update \in CheckedUpdates : CheckUpdate(update)

-----------------------------------------------------------------------------
(* Outbound: slave_message.py, SlaveMessageProcessor.send_message *)

MUTE_CHAT_ID == <<"__muted__">>         \* ETMChat.MUTE_CHAT_ID
admins == << <<"9">> >>                 \* config['admins']
NoTarget == [uid |-> None, chat |-> None]       \* msg.target is None

\* get_slave_msg_dest without the admin fallback of line 264
get_slave_msg_dest_NoAdmin(a, chat_uid) ==
    LET tg_chats == get_chat_assoc(a, None, chat_uid).list
        tg_chat == IF tg_chats # <<>> THEN tg_chats[1] ELSE None
        slaves == IF tg_chat # None THEN get_chat_assoc(a, tg_chat, None).list ELSE <<>>
    IN  [tg_chat |-> tg_chat,
         multi_slaves |-> Len(slaves) > 1,
         tg_dest |-> IF tg_chat = None \/ tg_chat = MUTE_CHAT_ID THEN None
                     ELSE chat_id_str_to_id(tg_chat)[2]]

\* get_slave_msg_dest(msg): the first master chat the slave chat is linked to,
\* whether that chat has other slaves, and the Telegram chat the message goes
\* to (None when the chat is muted)
get_slave_msg_dest(a, chat_uid) ==
    LET tg_chats == get_chat_assoc(a, None, chat_uid).list
        tg_chat == IF tg_chats # <<>> THEN tg_chats[1] ELSE None
        slaves == IF tg_chat # None THEN get_chat_assoc(a, tg_chat, None).list ELSE <<>>
    IN  [tg_chat |-> tg_chat,
         multi_slaves |-> Len(slaves) > 1,
         tg_dest |-> IF tg_chat = None THEN admins[1]
                     ELSE IF tg_chat = MUTE_CHAT_ID THEN None
                     ELSE chat_id_str_to_id(tg_chat)[2]]

\* get_slave_msg_dest, lines 275-276: self.cache.remove(tg_dest) unless the
\* entry names this slave chat
local_cache_after(lc, tg_dest, chat_uid) ==
    IF tg_dest \in DOMAIN lc /\ lc[tg_dest] # chat_uid
    THEN [lc EXCEPT ![tg_dest] = None]
    ELSE lc

\* build_reactions_footer(reactions): reactions is a list of [k, n], the name
\* of a reaction and how many gave it; '' when there is no reaction
NoReactions == <<>>

build_reactions_footer(reactions) ==
    LET shown == SelectSeq(reactions, LAMBDA e : e.n > 0)
        joined[i \in 0..Len(shown)] ==
            IF i = 0 THEN <<>>
            ELSE joined[i - 1] \o (IF i > 1 THEN <<", ">> ELSE <<>>)
                              \o <<shown[i].k, "x", ToString(shown[i].n)>>
    IN  IF reactions = <<>> THEN <<>>
        ELSE <<"[">> \o joined[Len(shown)] \o <<"]">>

\* the message an edit replaces, taken from master_msg_id alone
old_msg_id_MasterOnly(old_msg) ==
    IF old_msg = NoRow THEN None
    ELSE message_id_str_to_id(old_msg.master_msg_id)

\* the message an edit replaces, taken from master_msg_id_alt alone
old_msg_id_AltOnly(old_msg) ==
    IF old_msg = NoRow \/ ~Truthy(old_msg.master_msg_id_alt) THEN None
    ELSE message_id_str_to_id(old_msg.master_msg_id_alt)

\* send_message, lines 95-108: the master message an edit replaces, None when
\* no row is found and the edit goes out as a new message
old_msg_id(old_msg) ==
    IF old_msg = NoRow THEN None
    ELSE IF Truthy(old_msg.master_msg_id_alt)
    THEN message_id_str_to_id(old_msg.master_msg_id_alt)
    ELSE message_id_str_to_id(old_msg.master_msg_id)

\* dispatch_message, lines 123-142: the Telegram message id the relay quotes
target_msg_id(log, tg_dest) ==
    IF log = NoRow THEN None
    ELSE LET target_msg == message_id_str_to_id(log.master_msg_id)
         IN  IF target_msg[1] # tg_dest THEN None ELSE target_msg[2]

\* a write for the same slave message is still waiting in the queue
Waiting(q, uid, chat_uid) ==
    \E i \in 1..Len(q) : /\ q[i].fn = "add_msg_log"
                         /\ q[i].kw.slave_message_id = uid
                         /\ q[i].kw.slave_origin_uid = chat_uid

\* what send_message did: where the message went, the row an edit found, the
\* row of the reply target, the message quoted, the message rendered and the
\* key of the write handed to the queue
OutboundOut(msg, d, result, old_msg, log, quoted, rendered, key) ==
    [kind |-> "outbound", chat |-> msg.chat, uid |-> msg.uid, edit |-> msg.edit,
     target |-> msg.target, result |-> result, tg_dest |-> d.tg_dest,
     muted |-> msg.muted, silent |-> msg.silent, tg_chat |-> d.tg_chat,
     status |-> msg.status, reactions |-> msg.reactions,
     footer |-> build_reactions_footer(msg.reactions),
     multi_slaves |-> d.multi_slaves,
     found |-> old_msg # NoRow, old_msg_id |-> old_msg_id(old_msg),
     waiting |-> Waiting(queue, msg.uid, msg.chat),
     target_origin |-> IF log = NoRow THEN None ELSE log.slave_origin_uid,
     target_master |-> IF log = NoRow THEN None ELSE log.master_msg_id,
     target_msg_id |-> quoted, rendered |-> rendered, key |-> key]

\* dispatch_message(msg, msg_template, old_msg_id, tg_dest, silent); log is the
\* row get_msg_log gave for msg.target. An edit in place returns the edited
\* message, anything else is a new message of tg_dest. old_msg_id is a pair
\* and tg_msg.message_id is not, so line 229 holds whenever old_msg_id is set.
dispatch_message(msg, d, old_msg, log) ==
    LET old == old_msg_id(old_msg)
        quoted == target_msg_id(log, d.tg_dest)
        tg_msg == IF old # None /\ msg.inplace THEN old ELSE <<d.tg_dest, IdStr(tg_next)>>
        sent_id == message_id_to_str(tg_msg[1], tg_msg[2])
        msg_log == Kwargs(IF old # None THEN message_id_to_str(old[1], old[2]) ELSE sent_id,
                          IF old # None THEN sent_id ELSE None,
                          msg.uid, msg.chat, msg.text,
                          [NoExtras EXCEPT !.msg_type = <<"T">>, !.sent_to = <<"s">>],
                          msg.edit)
    IN  IF msg.render = "raise"
        THEN /\ out' = OutboundOut(msg, d, "error", old_msg, log, quoted, None, None)
             /\ UNCHANGED <<queue, tg_next>>
        ELSE /\ out' = OutboundOut(msg, d, "sent", old_msg, log, quoted, sent_id,
                                   msg_log.master_msg_id)
             /\ queue' = add_task(queue, [fn |-> "add_msg_log", kw |-> msg_log])
             /\ tg_next' = IF old # None /\ msg.inplace THEN tg_next ELSE tg_next + 1

\* send_message(msg): one message a slave channel delivers
send_message(msg) ==
    LET chat_uid == msg.chat
        d == get_slave_msg_dest(assoc, chat_uid)
    IN  /\ Len(queue) < MaxQueue
        /\ local_cache' = local_cache_after(local_cache, d.tg_dest, chat_uid)
        /\ UNCHANGED <<assoc, msglog, clock, cache, worker_vars, whitelist, flags>>
        /\ IF msg.muted \/ d.tg_dest = None
           THEN /\ out' = OutboundOut(msg, d, "muted", NoRow, NoRow, None, None, None)
                /\ UNCHANGED <<queue, tg_next>>
           ELSE \E old_msg \in (IF msg.edit
                                THEN get_msg_log(msglog, None, msg.uid, chat_uid).rows
                                ELSE {NoRow}),
                   log \in (IF msg.target # NoTarget
                            THEN get_msg_log(msglog, None, msg.target.uid, msg.target.chat).rows
                            ELSE {NoRow}) :
                    dispatch_message(msg, d, old_msg, log)

\* what update_reactions did when it gave up: whether a row was found and
\* whether the row holds the pickled message
ReactionsOut(status, old_msg_db, pickle) ==
    [kind |-> "reactions", result |-> "ignored", chat |-> status.chat, uid |-> status.msg_id,
     found |-> old_msg_db # NoRow, pickle |-> pickle]

\* update_reactions(status): the row of the message, whether it holds the
\* pickled message, and the message rebuilt from it with the reactions of the
\* status, sent through dispatch_message as an edit of the row's message in
\* the chat of that message
update_reactions(status) ==
    LET chat_uid == status.chat
    IN  /\ Len(queue) < MaxQueue
        /\ UNCHANGED <<assoc, msglog, clock, cache, worker_vars, whitelist, flags>>
        /\ \E old_msg_db \in get_msg_log(msglog, None, status.msg_id, chat_uid).rows,
              pickle \in BOOLEAN :
               IF old_msg_db = NoRow \/ ~pickle
               THEN /\ out' = ReactionsOut(status, old_msg_db, pickle)
                    /\ UNCHANGED <<local_cache, queue, tg_next>>
               ELSE \E render \in {"ok", "raise"}, inplace \in BOOLEAN :
                       LET old_msg == [chat |-> chat_uid, uid |-> status.msg_id, edit |-> TRUE,
                                       muted |-> FALSE, silent |-> FALSE, target |-> NoTarget,
                                       render |-> render,
                                       inplace |-> inplace, text |-> old_msg_db.text,
                                       reactions |-> status.reactions, status |-> TRUE]
                           d == get_slave_msg_dest(assoc, chat_uid)
                           chat_id == old_msg_id(old_msg_db)[1]
                       IN  /\ local_cache' = local_cache_after(local_cache, d.tg_dest, chat_uid)
                           /\ dispatch_message(old_msg, [d EXCEPT !.tg_dest = chat_id],
                                               old_msg_db, NoRow)

\* the reactions a slave may report: none, one given once, and one withdrawn
\* beside one given twice
ReactionSets ==
    {NoReactions, <<[k |-> "L", n |-> 1]>>, <<[k |-> "L", n |-> 0], [k |-> "H", n |-> 2]>>}

Statuses == [msg_id : AdapterUids, chat : InboundSlaves, reactions : ReactionSets]

\* the decision on notification that lets the chat decide before the author
slave_notification_ChatFirst(is_self, notification, fl) ==
    IF notification = "NONE" THEN fl.message_muted_on_slave
    ELSE IF is_self THEN fl.your_message_on_slave
    ELSE "normal"

\* send_message, lines 70-88: "mute" when the message is dropped, "silent"
\* when it is sent with no notification, "normal" otherwise; notification is
\* "NONE" when the chat is not to notify (or notifies of mentions only and
\* the message mentions nobody)
slave_notification(is_self, notification, fl) ==
    IF is_self THEN fl.your_message_on_slave
    ELSE IF notification = "NONE" THEN fl.message_muted_on_slave
    ELSE "normal"

\* the message as lines 70-88 leave it
notified(msg, is_self, notification) ==
    LET n == slave_notification(is_self, notification, flags)
    IN  [msg EXCEPT !.muted = (n = "mute"), !.silent = (n = "silent")]

\* the messages slave channels may deliver: new or edits, muted or not, with
\* or without a reply target, rendered or failing to render; an edit may be
\* shown in place or as a new message
MessagesOf(edits, mutes, targets, renders) ==
    {msg \in [chat : InboundSlaves, uid : AdapterUids, edit : edits, muted : mutes,
              target : targets, render : renders, inplace : BOOLEAN, text : {Plain},
              reactions : {NoReactions}, status : {FALSE}, silent : {FALSE}] :
        ~msg.edit => msg.inplace}

Targets == {NoTarget} \cup [uid : AdapterUids, chat : InboundSlaves]

\* messages and edits that are rendered, with no reply target
OutboundStep ==
    /\ tg_next <= MaxMsgs
    /\ \E msg \in MessagesOf(BOOLEAN, BOOLEAN, {NoTarget}, {"ok", "raise"}) : send_message(msg)

\* new messages that are rendered, with or without a reply target
ReplyOutboundStep ==
    /\ tg_next <= MaxMsgs
    /\ \E msg \in MessagesOf({FALSE}, {FALSE}, Targets, {"ok"}) : send_message(msg)

\* new messages from the master side whose relay the slave takes
ReplyInboundStep ==
    /\ \E u \in {x \in UpdatesOf({Plain}, {"ok"}) : ~x.edited} : Inbound(u)
    /\ UNCHANGED worker_vars

-----------------------------------------------------------------------------
(* The removal command: master_message.py, MasterMessageProcessor.delete_message *)

\* delete_message, line 474: the command is refused as "not found"
delete_rejected(row) == row = NoRow \/ row.slave_member_uid = FAIL_FLAG

\* the reply is deleted whether the removal request returned or raised
reply_deleted_Eager(status, prevent, tg) == ~prevent /\ tg = "ok"

\* delete_message, lines 491-510: the replied-to message is deleted on the
\* master side; status is how coordinator.send_status ended, tg how
\* reply.delete() ended
reply_deleted(status, prevent, tg) == status = "ok" /\ ~prevent /\ tg = "ok"

\* what delete_message did: the row it found, whether it sent the removal
\* request and for which slave message, whether it told the user an error,
\* and whether it deleted the master-side copy
DeleteOut(c, row, result, removal, error, deleted) ==
    [kind |-> "delete_message", chat |-> c.chat, reply_to |-> c.reply_to, result |-> result,
     found |-> row # NoRow,
     smi |-> IF row = NoRow THEN None ELSE row.slave_message_id,
     origin |-> IF row = NoRow THEN None ELSE row.slave_origin_uid,
     removal |-> removal, status |-> c.status, prevent |-> flags.prevent_message_removal,
     error |-> error, deleted |-> deleted]

\* delete_message(update, context): the command /rm, itself a message of the
\* chat; c.unpickle is whether build_etm_msg rebuilds the message
delete_message(c) ==
    LET row == IF c.reply_to = None THEN NoRow
               ELSE RowOf(msglog, message_id_to_str(c.chat, c.reply_to))
    IN  /\ tg_next' = tg_next + 1
        /\ UNCHANGED <<assoc, msglog, clock, cache, local_cache, queue, worker_vars,
                       whitelist, flags>>
        /\ IF c.reply_to = None
           THEN out' = DeleteOut(c, row, "usage", FALSE, TRUE, FALSE)
           ELSE IF delete_rejected(row)
           THEN out' = DeleteOut(c, row, "not_found", FALSE, TRUE, FALSE)
           ELSE IF ~c.unpickle
           THEN out' = DeleteOut(c, row, "not_found", FALSE, TRUE, FALSE)
           ELSE IF chat_id_str_to_id(row.slave_origin_uid)[1] \notin SlaveChannels
           THEN out' = DeleteOut(c, row, "no_module", FALSE, TRUE, FALSE)
           ELSE out' = DeleteOut(c, row, IF c.status = "raise" THEN "failed" ELSE "removed",
                                 TRUE, c.status = "raise",
                                 reply_deleted(c.status, flags.prevent_message_removal, c.tg))

\* the commands the user may give: /rm alone or as a reply to an earlier
\* message of the chat
Commands ==
    {c \in [chat : InboundChats, reply_to : {None} \cup {IdStr(i) : i \in 1..MaxMsgs},
            unpickle : BOOLEAN, status : {"ok", "raise"}, tg : {"ok", "raise"}] :
        c.reply_to # None => \E i \in 1..MaxMsgs : c.reply_to = IdStr(i) /\ i < tg_next}

DeleteMessageStep ==
    /\ tg_next <= MaxMsgs + 1
    /\ \E c \in Commands : delete_message(c)

-----------------------------------------------------------------------------
(* Specifications *)

NoOut == [kind |-> "none"]

\* all but the whitelist the handler is built with
InitBase ==
    /\ assoc = <<>>
    /\ msglog = {}
    /\ clock = 0
    /\ cache = [c \in MasterChats |-> NoEntry]
    /\ local_cache = [c \in MasterChats \cup {admins[1]} |-> None]
    /\ queue = <<>>
    /\ tg_next = 1
    /\ out = NoOut
    /\ message_queue = <<>>
    /\ message_worker_thread = Waiting_for_update
    /\ stopper = [pc |-> "idle", before |-> 0, pending |-> 0]
    /\ handled = <<>>
    /\ issued = 0

\* the flags at their defaults
DefaultFlags ==
    [send_to_last_chat |-> "warn", prevent_message_removal |-> FALSE,
     your_message_on_slave |-> "silent", message_muted_on_slave |-> "normal"]

\* the whitelist is the list of admins
Init == InitBase /\ whitelist = {9} /\ flags = DefaultFlags

\* the handler built with any whitelist
InitWhitelist == InitBase /\ whitelist \in SUBSET UserIds /\ flags = DefaultFlags

\* the channel configured to warn about cached destinations or to use them
\* silently
InitAdvisory ==
    /\ InitBase /\ whitelist = {9}
    /\ flags \in [send_to_last_chat : {"warn", "enabled"}, prevent_message_removal : {FALSE},
                  your_message_on_slave : {"silent"}, message_muted_on_slave : {"normal"}]

NextWhitelist == CheckUpdateStep

SpecWhitelist == InitWhitelist /\ [][NextWhitelist]_vars

NextLinks == LinkStep \/ UnlinkStep

SpecLinks == Init /\ [][NextLinks]_vars

\* calls of the link store with each argument given or None
RemoveCallStep ==
    \E m \in MasterUids \cup {None}, s \in SlaveUids \cup {None} : RemoveCall(m, s)

LookupCallStep ==
    \E m \in MasterUids \cup {None}, s \in SlaveUids \cup {None} : LookupCall(m, s)

NextLinkCalls == LinkStep \/ RemoveCallStep \/ LookupCallStep

SpecLinkCalls == Init /\ [][NextLinkCalls]_vars

NextLog == PutStep \/ DeleteStep

SpecLog == Init /\ [][NextLog]_vars

NextRecent == TrafficStep \/ DeleteStep \/ Tick

SpecRecent == Init /\ [][NextRecent]_vars

\* links of the chat the updates come from
ChatLinkStep ==
    \E c \in InboundChats, s \in InboundSlaves, multi \in BOOLEAN :
        Link(chat_id_to_str(channel_id, c), s, multi)

NextInbound == ChatLinkStep \/ InboundStep \/ Writer

SpecInbound == Init /\ [][NextInbound]_vars

MaxLinks == 6       \* slave chats that may be linked to one master chat

ManySlaves == [i \in 1..MaxLinks |-> chat_id_to_str(<<"a">>, IdStr(i))]

\* the next slave chat is linked to the chat, alone or beside the others
ManyLinkStep ==
    \E c \in InboundChats, multi \in BOOLEAN :
        LET m == chat_id_to_str(channel_id, c)
        IN  /\ Len(linksFromMaster(assoc, m)) < MaxLinks
            /\ Link(m, ManySlaves[Len(linksFromMaster(assoc, m)) + 1], multi)

NextSuggest == ManyLinkStep \/ InboundStep \/ Writer

SpecSuggest == Init /\ [][NextSuggest]_vars

NextQuote == ChatLinkStep \/ ReplyInboundStep \/ ReplyOutboundStep \/ Writer

SpecQuote == Init /\ [][NextQuote]_vars

\* links of the slave chats to the chat or to the mute chat
SlaveLinkStep ==
    \E m \in {chat_id_to_str(channel_id, c) : c \in InboundChats} \cup {MUTE_CHAT_ID},
       s \in InboundSlaves, multi \in BOOLEAN :
        Link(m, s, multi)

NextOutbound == SlaveLinkStep \/ OutboundStep \/ Writer

SpecOutbound == Init /\ [][NextOutbound]_vars

MaxTraffic == 4     \* Telegram message ids in use while both directions run

\* new messages from the master side, replies or not, the slave takes
TrafficInboundStep ==
    /\ \E u \in {x \in UpdatesUpTo(MaxTraffic, {Plain}, {"ok"}) : ~x.edited} : Inbound(u)
    /\ UNCHANGED worker_vars

\* new messages of the slave chats, rendered, with no reply target
TrafficOutboundStep ==
    /\ tg_next <= MaxTraffic
    /\ \E msg \in MessagesOf({FALSE}, {FALSE}, {NoTarget}, {"ok"}) : send_message(msg)

NextTraffic == ChatLinkStep \/ TrafficInboundStep \/ TrafficOutboundStep \/ Writer

SpecTraffic == Init /\ [][NextTraffic]_vars

NextAdvisory == ChatLinkStep \/ TrafficInboundStep \/ Writer

SpecAdvisory == InitAdvisory /\ [][NextAdvisory]_vars

\* an edit whose text is the delete flag followed by text
Removal == DELETE_FLAG \o Plain

\* updates of every kind: new messages, replies and edits, plain or starting
\* with the delete flag, of a type that is supported or not, which the slave
\* takes with or without giving an id, or refuses by raising
DeliveryUpdates == UpdatesOf({Plain, Removal}, {"ok", "nouid", "raise", "badtype"})

MaxPending == 1     \* writes that may wait while deliveries fail

DeliveryStep ==
    /\ Len(queue) < MaxPending
    /\ \E u \in DeliveryUpdates : Inbound(u)
    /\ UNCHANGED worker_vars

\* the chat is linked to one slave chat or the other
DeliveryLinkStep ==
    \E s \in InboundSlaves : Link(chat_id_to_str(channel_id, <<"1">>), s, FALSE)

NextDelivery == DeliveryLinkStep \/ DeliveryStep \/ Writer

SpecDelivery == Init /\ [][NextDelivery]_vars

\* the channel configured to delete the master-side copy or to keep it
InitRemoval ==
    /\ InitBase /\ whitelist = {9}
    /\ flags \in [send_to_last_chat : {"warn"}, prevent_message_removal : BOOLEAN,
                  your_message_on_slave : {"silent"}, message_muted_on_slave : {"normal"}]

\* new messages from the master side the slave takes, with or without an id
RemovalInboundStep ==
    /\ \E u \in {x \in UpdatesOf({Plain}, {"ok", "nouid"}) : ~x.edited} : Inbound(u)
    /\ UNCHANGED worker_vars

NextRemoval == DeliveryLinkStep \/ RemovalInboundStep \/ DeleteMessageStep \/ Writer

SpecRemoval == InitRemoval /\ [][NextRemoval]_vars

MaxReactors == 2    \* how many may have given one reaction

ReactionNames == {"L", "H", "S"}

\* the reaction maps of a status: each reaction named once, in the order of
\* the dict, with the number of those who gave it
ReactionMaps ==
    {m \in UNION {[1..n -> [k : ReactionNames, n : 0..MaxReactors]] : n \in 0..Cardinality(ReactionNames)} :
        \A i, j \in DOMAIN m : i # j => m[i].k # m[j].k}

\* build_reactions_footer called on a reaction map
FooterStep ==
    /\ \E reactions \in ReactionMaps :
          out' = [kind |-> "footer", reactions |-> reactions,
                  footer |-> build_reactions_footer(reactions)]
    /\ UNCHANGED <<assoc, msglog, clock, cache, local_cache, queue, tg_next, worker_vars,
                   whitelist, flags>>

NextFooter == FooterStep

SpecFooter == Init /\ [][NextFooter]_vars

NotificationFlags == {"normal", "silent", "mute"}

\* the channel configured with each setting of the two flags
InitMuting ==
    /\ InitBase /\ whitelist = {9}
    /\ flags \in [send_to_last_chat : {"warn"}, prevent_message_removal : {FALSE},
                  your_message_on_slave : NotificationFlags,
                  message_muted_on_slave : NotificationFlags]

\* new messages of the slave chats, of the user or of others, from chats that
\* notify or not
NewMessages == MessagesOf({FALSE}, {FALSE}, {NoTarget}, {"ok", "raise"})

MutingOutboundStep ==
    /\ tg_next <= MaxMsgs
    /\ \E msg \in NewMessages, is_self \in BOOLEAN, notification \in {"ALL", "NONE"} :
           send_message(notified(msg, is_self, notification))

\* a slave chat is linked to the chat or to the mute chat, beside the others
MutingLinkStep ==
    \E m \in {chat_id_to_str(channel_id, <<"1">>), MUTE_CHAT_ID}, s \in InboundSlaves :
        Link(m, s, TRUE)

NextMuting == MutingLinkStep \/ MutingOutboundStep \/ Writer

SpecMuting == InitMuting /\ [][NextMuting]_vars

MaxReacted == 3     \* Telegram message ids in use while reactions come in

ReactingChat == chat_id_to_str(<<"a">>, <<"1">>)

\* the slave chat is linked to the chat, or left with no link
ReactingLinkStep ==
    \/ Link(chat_id_to_str(channel_id, <<"1">>), ReactingChat, FALSE)
    \/ assoc # <<>> /\ Unlink(None, ReactingChat)

\* messages and edits of the slave chat, rendered, with no reply target
EditOutboundStep ==
    /\ tg_next <= MaxReacted
    /\ \E msg \in MessagesOf(BOOLEAN, {FALSE}, {NoTarget}, {"ok"}) :
           msg.chat = ReactingChat /\ send_message(msg)

\* reaction updates of the slave chats
ReactionsStep ==
    /\ tg_next <= MaxReacted
    /\ \E status \in Statuses : update_reactions(status)

NextReactions == ReactingLinkStep \/ EditOutboundStep \/ ReactionsStep \/ Writer

SpecReactions == Init /\ [][NextReactions]_vars

\* the chat is linked to one slave chat
OneLinkStep ==
    /\ assoc = <<>>
    /\ Link(chat_id_to_str(channel_id, <<"1">>), chat_id_to_str(<<"a">>, <<"1">>), FALSE)

NextWorker ==
    \/ OneLinkStep
    \/ enqueue_message
    \/ worker_get
    \/ worker_msg
    \/ worker_raise
    \/ stop_worker
    \/ stop_worker_join
    \/ Writer

\* the worker thread, the writer thread and the caller of stop_worker are
\* scheduled; msg, whether it returns or raises, terminates
SpecWorker ==
    /\ Init
    /\ [][NextWorker]_vars
    /\ WF_vars(worker_get)
    /\ WF_vars(worker_msg \/ worker_raise)
    /\ WF_vars(stop_worker_join)
    /\ WF_vars(Writer)

-----------------------------------------------------------------------------
(* Claims on the chat link store *)

\* C1: immediately after link(m, s, allow_multiple=false) the links of master m
\* are exactly [s]; in particular after link(m, s1) then link(m, s2) they are [s2].
C1_LinkUniqueness ==
    (out.kind = "link" /\ ~out.multiple_slave)
        => linksFromMaster(assoc, out.master_uid) = <<out.slave_uid>>

\* link(m, s2) has just run on a master that held [s1], and m holds [s2]
C1_Witness ==
    /\ out.kind = "link" /\ ~out.multiple_slave
    /\ Len(out.before) = 1 /\ out.before[1] # out.slave_uid
    /\ linksFromMaster(assoc, out.master_uid) = <<out.slave_uid>>

\* C2: in every reachable state every slave conversation is linked to at most
\* one master conversation.
C2_SlaveSideUniqueness ==
    \A s \in SlaveUids : Len(linksFromSlave(assoc, s)) <= 1

\* a slave was just re-linked, with allow_multiple, from one master to another
C2_Witness ==
    /\ out.kind = "link" /\ out.multiple_slave
    /\ Len(out.owner) = 1 /\ out.owner[1] # out.master_uid
    /\ linksFromSlave(assoc, out.slave_uid) = <<out.master_uid>>

\* C3: two successive link(m, s, allow_multiple=true) calls with different
\* slaves, on a master m that had no link, leave m with exactly those two links.
C3_MultiLink ==
    [][\A m \in MasterUids, s \in SlaveUids :
          (/\ out.kind = "link" /\ out.multiple_slave /\ out.before = <<>>
           /\ out.master_uid = m /\ out.slave_uid # s
           /\ Link(m, s, TRUE))
          => linksFromMaster(assoc', m) = <<out.slave_uid, s>>]_vars

\* the second of two such calls has run and the master holds two links
C3_Witness ==
    /\ out.kind = "link" /\ out.multiple_slave
    /\ Len(out.before) = 1 /\ out.before[1] # out.slave_uid
    /\ linksFromMaster(assoc, out.master_uid) = <<out.before[1], out.slave_uid>>

-----------------------------------------------------------------------------
(* Claims on the message log *)

DefaultLimit == 5       \* get_recent_slave_chats(master_chat_id, limit=5)

\* the rows whose master_msg_id, split at its dot, names master chat c
RowsOfChat(c) == {r \in msglog : message_id_str_to_id(r.master_msg_id)[1] = c}

\* the time of the newest row of chat c that came from slave chat o
LastSeen(c, o) ==
    CHOOSE t \in {r.time : r \in {x \in RowsOfChat(c) : x.slave_origin_uid = o}} :
        \A r \in {x \in RowsOfChat(c) : x.slave_origin_uid = o} : r.time <= t

\* C7: recentSlaveChats(c, limit) lists distinct slave origins of the rows of
\* master chat c and of no other chat, most recently seen first, cut to limit.
C7_RecentSlaveChats ==
    \A c \in MasterChats, limit \in 1..DefaultLimit :
        \A res \in get_recent_slave_chats(msglog, c, limit) :
            LET origins == {r.slave_origin_uid : r \in RowsOfChat(c)}
                listed == {res[i] : i \in 1..Len(res)}
            IN  /\ listed \subseteq origins
                /\ Cardinality(listed) = Len(res)
                /\ Len(res) = IF Cardinality(origins) < limit THEN Cardinality(origins) ELSE limit
                /\ \A i, j \in 1..Len(res) : i < j => LastSeen(c, res[i]) >= LastSeen(c, res[j])
                /\ \A o \in origins \ listed : \A i \in 1..Len(res) :
                       LastSeen(c, o) <= LastSeen(c, res[i])

\* chat "1" saw a.1 and later b.2, chat "12" saw a.3 only: chat "1" lists [b.2, a.1]
C7_Witness ==
    /\ {r.slave_origin_uid : r \in RowsOfChat(<<"1">>)} =
           {chat_id_to_str(<<"a">>, <<"1">>), chat_id_to_str(<<"b">>, <<"2">>)}
    /\ {r.slave_origin_uid : r \in RowsOfChat(<<"1", "2">>)} = {chat_id_to_str(<<"a">>, <<"3">>)}
    /\ LastSeen(<<"1">>, chat_id_to_str(<<"a">>, <<"1">>)) <
           LastSeen(<<"1">>, chat_id_to_str(<<"b">>, <<"2">>))
    /\ get_recent_slave_chats(msglog, <<"1">>, DefaultLimit) =
           {<<chat_id_to_str(<<"b">>, <<"2">>), chat_id_to_str(<<"a">>, <<"1">>)>>}
    /\ get_recent_slave_chats(msglog, <<"1">>, 1) = {<<chat_id_to_str(<<"b">>, <<"2">>)>>}

\* C8: a put(record, update=true) that repeats the call made just before it
\* leaves the log as the first application left it.
C8_EditIdempotence ==
    [][\A kw \in PutInputs :
          (out.kind = "put" /\ out.kw = kw /\ kw.update /\ Put(kw))
          => msglog' = msglog]_vars

\* an update with non-empty fields was applied twice in a row to a stored row
\* and the row holds the fields of the update
C8_Witness ==
    /\ out.kind = "put" /\ out.again /\ out.kw.update /\ ~out.raised /\ ~out.suppressed
    /\ out.kw.text = <<"h">> /\ out.kw.msg_type = <<"T">> /\ out.kw.master_msg_id_alt = AltKey
    /\ RowOf(msglog, out.kw.master_msg_id) # NoRow
    /\ \A f \in MergedFields \cup {"master_msg_id_alt"} :
           Truthy(out.kw[f]) /\ RowOf(msglog, out.kw.master_msg_id)[f] = out.kw[f]
    /\ add_msg_log(msglog, out.kw, clock).log = msglog


-----------------------------------------------------------------------------
(* Claims on the inbound resolver *)

\* the updates the inbound claims range over
InboundUpdates == UpdatesOf({Plain}, {"ok", "nouid"})

\* the links of the master chat
LinksOfChat(c) == linksFromMaster(assoc, chat_id_to_str(channel_id, c))

\* the first n entries of a list
FirstN(l, n) == SubSeq(l, 1, IF Len(l) < n THEN Len(l) ELSE n)

C5_EditRejection ==
    (out.kind = "inbound" /\ out.edited)
    => IF out.edit_smi = None \/ IsSentinel(out.edit_smi)
       THEN out.result = "rejected" /\ ~out.sent /\ ~out.logged
       ELSE out.destination = out.edit_origin /\ out.sent_uid = out.edit_smi

\* C6: a message that is not an edit, in a chat that is not singly linked,
\* with no reply target and no cache entry: the candidates are
\* recentSlaveChats(chat, 5) when that is not empty, else the first 5 links;
\* nothing is sent and no write reaches the log or the queue.
C6_AmbiguityFallback ==
    [][\A u \in InboundUpdates :
          (/\ Inbound(u)
           /\ ~u.edited
           /\ Len(LinksOfChat(u.chat)) # 1
           /\ u.reply_to = None
           /\ ~Truthy(cache_get(cache, u.chat)))
          => /\ IF get_recent_slave_chats(msglog, u.chat, 5) # {<<>>}
                THEN out'.candidates \in get_recent_slave_chats(msglog, u.chat, 5)
                ELSE out'.candidates = FirstN(LinksOfChat(u.chat), 5)
             /\ out'.result \in {"prompt", "no_recipient"}
             /\ ~out'.sent /\ ~out'.logged
             /\ queue' = queue /\ msglog' = msglog]_vars

\* a chat with more than five links and no traffic logged: the first five
\* links were offered
C6_Witness ==
    /\ out.kind = "inbound"
    /\ out.result = "prompt"
    /\ Len(LinksOfChat(out.chat)) > 5
    /\ RecentRows(msglog, out.chat) = {}
    /\ queue = <<>>
    /\ out.candidates = FirstN(LinksOfChat(out.chat), 5)

-----------------------------------------------------------------------------
(* Claims on quoting and on follow-ups *)

\* the channel of a slave chat uid
ChannelOf(uid) == chat_id_str_to_id(uid)[1]

C10_FollowUpFindsOriginal ==
    (/\ out.kind = "outbound"
     /\ out.edit
     /\ out.result = "sent"
     /\ out.waiting)
    => out.found


-----------------------------------------------------------------------------
(* Claims on the inbound worker *)

\* the updates 1..n in the order they were enqueued
InOrder(n) == [i \in 1..n |-> i]

\* C11: the worker handles the updates one at a time in the order they were
\* enqueued: when it takes an update, every update enqueued before it is done
\* with (returned or failed), and none enqueued after it is; enqueue_message
\* can be called whatever the worker is doing.
C11_SerialInOrder ==
    /\ handled = InOrder(Len(handled))
    /\ message_worker_thread.state = "busy"
       => handled = InOrder(message_worker_thread.item - 1)
    /\ issued < MaxUpdates => ENABLED enqueue_message

\* the second update is being processed, the first is done with, and the
\* third was enqueued while the worker was busy
C11_Witness ==
    /\ message_worker_thread = [state |-> "busy", item |-> 2]
    /\ handled = <<1>>
    /\ message_queue = <<3>>
    /\ out.kind = "enqueue" /\ out.worker = "busy"

\* C12: an exception of msg is logged and reported to the conversation, and
\* no failure while handling an update, a failure of the report included,
\* ends the worker.
C12_WorkerSurvives ==
    /\ out.kind = "worker_error" => out.logged /\ out.reported
    /\ message_worker_thread.state # "died"

\* C13: every call of enqueue_message made while the worker thread is not
\* alive replies to the conversation that the worker is not running.
C13_UnavailableIsVisible ==
    (out.kind = "enqueue" /\ out.worker \in {"returned", "died"})
    => out.notified

\* an update was enqueued after the worker had returned on the poison, and
\* the reply was sent
C13_Witness ==
    /\ out.kind = "enqueue"
    /\ out.worker = "returned"
    /\ out.notified
    /\ out.update \in {message_queue[i] : i \in 1..Len(message_queue)}

-----------------------------------------------------------------------------
(* Claims on the outbound pipeline *)

\* C15: every slave message that reaches dispatch (not muted, destination
\* not None) hands one write to the log queue, also when the render call
\* raises.
C15_WriteAlways ==
    (out.kind = "outbound" /\ ~out.muted /\ out.tg_dest # None) => out.key # None

\* the master chats of the rows that link a slave chat, in the order of the
\* rows
MastersOf(s) ==
    LET idx == {i \in 1..Len(assoc) : assoc[i].slave_uid = s}
        f[n \in 0..Len(assoc)] ==
            IF n = 0 THEN <<>>
            ELSE IF n \in idx THEN Append(f[n - 1], assoc[n].master_uid) ELSE f[n - 1]
    IN  f[Len(assoc)]

\* C16: a message of a slave chat with no link goes to the first admin and
\* is not dropped for want of a destination; a message of a linked slave
\* chat resolves to the first master chat the slave chat is linked to.
C16_Destination ==
    out.kind = "outbound" =>
        IF MastersOf(out.chat) = <<>>
        THEN /\ out.tg_chat = None
             /\ out.tg_dest = admins[1]
             /\ out.result = "muted" => out.muted
        ELSE /\ out.tg_chat = MastersOf(out.chat)[1]
             /\ IF out.tg_chat = MUTE_CHAT_ID THEN out.tg_dest = None
                ELSE chat_id_to_str(channel_id, out.tg_dest) = out.tg_chat

\* a message of a chat with no link was rendered in the chat of the first
\* admin and its write is keyed by that chat
C16_Witness ==
    /\ out.kind = "outbound"
    /\ MastersOf(out.chat) = <<>>
    /\ assoc # <<>>
    /\ out.result = "sent"
    /\ out.tg_dest = admins[1]
    /\ message_id_str_to_id(out.key)[1] = admins[1]

\* a message of a linked chat was rendered in the chat it is linked to
C16_WitnessLinked ==
    /\ out.kind = "outbound"
    /\ MastersOf(out.chat) # <<>>
    /\ out.result = "sent"
    /\ chat_id_to_str(channel_id, out.tg_dest) = MastersOf(out.chat)[1]

\* new messages of the chat that neither edit nor reply
PlainUpdates ==
    {u \in UpdatesUpTo(MaxTraffic, {Plain}, {"ok"}) : ~u.edited /\ u.reply_to = None}

\* C17: once a message of a slave chat has resolved to a master chat whose
\* cache entry names another slave chat, the next message of the master chat
\* is not delivered to the destination the entry named.
C17_NoStaleDelivery ==
    [][\A u \in PlainUpdates :
          (/\ out.kind = "outbound"
           /\ out.tg_dest = u.chat
           /\ Truthy(cache_get(cache, u.chat))
           /\ cache_get(cache, u.chat) # out.chat
           /\ Inbound(u))
          => ~(out'.result = "relayed" /\ out'.destination = cache_get(cache, u.chat))]_vars

-----------------------------------------------------------------------------
(* Claims on the log of relayed messages *)

\* new messages the slave takes and gives an id
NewUpdates == {u \in UpdatesOf({Plain}, {"ok"}) : ~u.edited}

\* the rows of the log with a master message id
RowsOf(id) == {r \in msglog : r.master_msg_id = id}

\* C18: the relay of a new message of a chat linked to one slave chat hands
\* the queue one write with the master message id <chat>.<message>, the
\* linked slave chat as origin and the id the slave returned; the writer
\* makes it the one row with that master message id; and no two rows of the
\* log ever share a master message id.
C18_RelayRecord ==
    /\ [](\A r1, r2 \in msglog : r1.master_msg_id = r2.master_msg_id => r1 = r2)
    /\ [][\A u \in NewUpdates :
            (Len(LinksOfChat(u.chat)) = 1 /\ Inbound(u)) =>
                /\ out'.result = "relayed"
                /\ queue' = Append(queue,
                        [fn |-> "add_or_update_message_log",
                         master_msg_id |-> u.chat \o Dot \o u.message_id,
                         uid |-> u.new_uid,
                         origin |-> LinksOfChat(u.chat)[1],
                         text |-> u.text])]_vars
    /\ [][(/\ queue # <<>>
            /\ Head(queue).fn = "add_or_update_message_log"
            /\ Truthy(Head(queue).uid)
            /\ RowsOf(Head(queue).master_msg_id) = {}
            /\ Writer) =>
               \E r \in msglog' :
                   /\ {x \in msglog' : x.master_msg_id = Head(queue).master_msg_id} = {r}
                   /\ r.slave_origin_uid = Head(queue).origin
                   /\ r.slave_message_id = Head(queue).uid]_vars

\* the message 1.1 of a chat linked to a.1 alone was relayed and its row
\* written; an edit of it was relayed and written too, and the row is still
\* the only one
C18_Witness ==
    /\ out.kind = "inbound"
    /\ out.via = "edit"
    /\ out.result = "relayed"
    /\ queue = <<>>
    /\ \E r \in msglog :
           /\ r.master_msg_id = <<"1", ".", "1">>
           /\ r.slave_origin_uid = <<"a", ".", "1">>
           /\ r.slave_message_id = <<"x">>
           /\ msglog = {r}

-----------------------------------------------------------------------------
(* Claims on reaction updates *)

\* the rows of the log for a message of a slave chat
RowsOfSlave(msg_id, chat) ==
    {r \in msglog : r.slave_message_id = msg_id /\ r.slave_origin_uid = chat}

\* the footer of each set of reactions a slave may report
FooterOf(reactions) ==
    CASE reactions = NoReactions -> <<>>
      [] reactions = <<[k |-> "L", n |-> 1]>> -> <<"[", "L", "x", "1", "]">>
      [] reactions = <<[k |-> "L", n |-> 0], [k |-> "H", n |-> 2]>> ->
             <<"[", "H", "x", "2", "]">>

\* C19: a reaction update for a message whose row holds the pickled message
\* is dispatched as an edit with the reactions of the update and the footer
\* built from them; the message edited is the row's master_msg_id_alt if
\* set, else its master_msg_id; the write, if any, is one update of that
\* message, and no update write adds a row. With no row, or a row without
\* the pickled message, nothing is rendered and nothing written.
C19_ReactionUpdate ==
    /\ [][\A status \in Statuses :
            update_reactions(status) =>
                IF out'.kind = "reactions"
                THEN /\ (RowsOfSlave(status.msg_id, status.chat) = {} <=> ~out'.found)
                     /\ ~out'.found \/ ~out'.pickle
                     /\ UNCHANGED <<queue, tg_next, msglog>>
                ELSE \E r \in RowsOfSlave(status.msg_id, status.chat) :
                       LET effective == IF r.master_msg_id_alt # None
                                        THEN r.master_msg_id_alt ELSE r.master_msg_id
                       IN  /\ out'.kind = "outbound" /\ out'.status /\ out'.edit
                           /\ out'.reactions = status.reactions
                           /\ out'.footer = FooterOf(status.reactions)
                           /\ out'.old_msg_id = message_id_str_to_id(effective)
                           /\ out'.tg_dest = message_id_str_to_id(effective)[1]
                           /\ msglog' = msglog
                           /\ IF out'.result = "sent"
                              THEN /\ Len(queue') = Len(queue) + 1
                                   /\ queue'[Len(queue')].kw.update
                                   /\ queue'[Len(queue')].kw.master_msg_id = effective
                              ELSE queue' = queue]_vars
    /\ [][(queue # <<>> /\ Head(queue).fn = "add_msg_log" /\ Head(queue).kw.update /\ Writer)
            => {r.master_msg_id : r \in msglog'} = {r.master_msg_id : r \in msglog}]_vars

\* the reactions of a message whose edit was sent as a second message were
\* updated: the edit went to the second message, with the footer of the one
\* reaction, and its write was applied without adding a row
C19_Witness ==
    /\ out.kind = "outbound"
    /\ out.status
    /\ out.result = "sent"
    /\ out.footer = <<"[", "L", "x", "1", "]">>
    /\ out.old_msg_id = << <<"1">>, <<"2">> >>
    /\ queue = <<>>
    /\ Cardinality(msglog) = 1
    /\ \E r \in msglog : r.master_msg_id = <<"1", ".", "1">>

\* a reaction update found no row and nothing was rendered
C19_WitnessNoRow ==
    /\ out.kind = "reactions"
    /\ ~out.found
    /\ msglog # {}

-----------------------------------------------------------------------------
(* Claims on the arguments of the link store *)

\* the rows of the link table as a set
RowSet(a) == {a[i] : i \in 1..Len(a)}

\* C20: remove_chat_assoc and get_chat_assoc called with both arguments or
\* with neither raise and leave the link table as it was; called with one
\* argument they do not raise.
C20_ExactlyOneArgument ==
    /\ [][\A m \in MasterUids \cup {None}, s \in SlaveUids \cup {None} :
            RemoveCall(m, s) =>
                IF (m = None) = (s = None)
                THEN out'.raised /\ assoc' = assoc
                ELSE /\ ~out'.raised
                     /\ RowSet(assoc') =
                            {r \in RowSet(assoc) : r.master_uid # m /\ r.slave_uid # s}]_vars
    /\ [][\A m \in MasterUids \cup {None}, s \in SlaveUids \cup {None} :
            LookupCall(m, s) =>
                /\ assoc' = assoc
                /\ IF (m = None) = (s = None)
                   THEN out'.raised
                   ELSE /\ ~out'.raised
                        /\ {out'.list[i] : i \in 1..Len(out'.list)} =
                              {r.slave_uid : r \in {x \in RowSet(assoc) : x.master_uid = m}}
                              \cup {r.master_uid : r \in {x \in RowSet(assoc) : x.slave_uid = s}}]_vars

\* remove_chat_assoc was called with both sides of a link that is in the
\* table: it raised and the link is still there
C20_Witness ==
    /\ out.kind = "remove_chat_assoc"
    /\ out.raised
    /\ out.master_uid # None /\ out.slave_uid # None
    /\ Row(out.master_uid, out.slave_uid) \in RowSet(assoc)

\* get_chat_assoc was called with neither argument and raised
C20_WitnessLookup ==
    /\ out.kind = "get_chat_assoc"
    /\ out.raised
    /\ out.master_uid = None /\ out.slave_uid = None
    /\ assoc # <<>>

-----------------------------------------------------------------------------
(* Claims on the calls of the message log *)

\* C21: a put with update set, or a delete, whose well-formed key matches no
\* row does not raise and leaves the log as it was.
C21_MissingRowIsNoOp ==
    /\ [][\A kw \in PutInputs :
            (kw.update /\ RowOf(msglog, kw.master_msg_id) = NoRow /\ Put(kw))
                => ~out'.raised /\ msglog' = msglog]_vars
    /\ [][\A id \in MsgKeys :
            (RowOf(msglog, id) = NoRow /\ Delete(id, None, None)) => msglog' = msglog]_vars

\* C23: a put with update set overwrites a stored field only with a value
\* that is not empty: every field of the row, master_msg_id_alt included,
\* holds the value given if there is one, else the value it held.
C23_LastNonNullWins ==
    [][\A kw \in PutInputs :
          (/\ kw.update /\ Truthy(kw.slave_message_id)
           /\ RowOf(msglog, kw.master_msg_id) # NoRow
           /\ Put(kw))
          => LET old == RowOf(msglog, kw.master_msg_id)
                 new == CHOOSE r \in msglog' : r.master_msg_id = kw.master_msg_id
             IN  \A f \in MergedFields \cup {"master_msg_id_alt"} :
                     new[f] = IF Truthy(kw[f]) THEN kw[f] ELSE old[f]]_vars

\* C24: a put with no slave message id that is not an update is suppressed
\* and leaves the log as it was; a put with update set is not suppressed for
\* want of a slave message id.
C24_SuppressedInsert ==
    [][\A kw \in PutInputs :
          (~Truthy(kw.slave_message_id) /\ Put(kw)) =>
              IF kw.update
              THEN ~out'.suppressed
              ELSE out'.suppressed /\ msglog' = msglog]_vars

-----------------------------------------------------------------------------
(* Claims on the whitelist handler *)

\* C22: an update of a user who is not on the whitelist is never let
\* through, and an update of a user who is on it is never blocked.
C22_Whitelist ==
    (out.kind = "check_update" /\ out.update.is_update /\ out.update.effective_user # NoUser)
        => IF out.update.effective_user \in whitelist
           THEN out.result = "pass"
           ELSE out.result # "pass"

-----------------------------------------------------------------------------
(* Claims on the reply and cache steps of the resolution *)

\* new messages of the chat, replies or not
TrafficUpdates == {u \in UpdatesUpTo(MaxTraffic, {Plain}, {"ok"}) : ~u.edited}

\* the row of the message an update replies to
ReplyRow(u) ==
    IF u.reply_to = None THEN NoRow
    ELSE RowOf(msglog, u.chat \o Dot \o u.reply_to)

\* C25: in a chat that is not linked to one slave chat alone, a new message
\* that replies to a message with a row goes to the slave_origin_uid of the
\* row, and the cache entry of the chat is that destination afterwards.
C25_ReplyRouting ==
    [][\A u \in TrafficUpdates :
          (/\ Len(LinksOfChat(u.chat)) # 1
           /\ ReplyRow(u) # NoRow
           /\ Inbound(u))
          => /\ out'.destination = ReplyRow(u).slave_origin_uid
             /\ out'.result = "relayed"
             /\ out'.sent
             /\ cache_get(cache', u.chat) = ReplyRow(u).slave_origin_uid]_vars

\* in a chat linked to a.1 and b.2, with a row of a.1 in the log, a reply to
\* a message of b.2 went to b.2 and the cache names b.2
C25_Witness ==
    /\ out.kind = "inbound"
    /\ out.via = "reply"
    /\ out.result = "relayed"
    /\ out.destination = <<"b", ".", "2">>
    /\ out.reply_origin = <<"b", ".", "2">>
    /\ cache_get(cache, out.chat) = <<"b", ".", "2">>
    /\ Len(LinksOfChat(out.chat)) = 2
    /\ \E r \in msglog : r.slave_origin_uid = <<"a", ".", "1">>

\* C26: in a chat that is not linked to one slave chat alone, a new message
\* that is not a reply, or that replies to a message with no row, goes to the
\* destination the cache holds for the chat, if it holds one.
C26_CacheRouting ==
    [][\A u \in TrafficUpdates :
          (/\ Len(LinksOfChat(u.chat)) # 1
           /\ ReplyRow(u) = NoRow
           /\ Truthy(cache_get(cache, u.chat))
           /\ Inbound(u))
          => out'.destination = cache_get(cache, u.chat)]_vars

\* C27: the warning about a cached destination is sent only for a message
\* routed by the cache, only under the policy "warn" and only while the
\* entry is not marked as warned; it is sent for the first such message,
\* which marks the entry, and the mark stays while messages are routed by
\* the cache.
C27_OneShotAdvisory ==
    [][\A u \in TrafficUpdates :
          Inbound(u) =>
              /\ out'.warned <=> (/\ out'.via = "cache"
                                  /\ flags.send_to_last_chat = "warn"
                                  /\ ~cache[u.chat].warned)
              /\ out'.warned => cache'[u.chat].warned
              /\ (out'.via = "cache" /\ cache[u.chat].warned) =>
                     (cache'[u.chat].warned /\ ~out'.warned)
              /\ flags.send_to_last_chat # "warn" => ~cache'[u.chat].warned]_vars

\* under the policy "warn" a second message was routed by the cache and no
\* warning was sent for it
C27_Witness ==
    /\ flags.send_to_last_chat = "warn"
    /\ out.kind = "inbound"
    /\ out.via = "cache"
    /\ out.result = "relayed"
    /\ ~out.warned
    /\ cache[out.chat].warned

\* under the policy "enabled" a message was routed by the cache with no
\* warning
C27_WitnessSilent ==
    /\ flags.send_to_last_chat = "enabled"
    /\ out.kind = "inbound"
    /\ out.via = "cache"
    /\ ~out.warned

\* C28: after a message of a slave chat has resolved to a master chat, the
\* cache entry of the master chat is absent or names that slave chat.
C28_InvalidatedOnContradiction ==
    (out.kind = "outbound" /\ out.tg_dest \in DOMAIN cache)
        => cache_get(cache, out.tg_dest) \in {None, out.chat}

-----------------------------------------------------------------------------
(* Claims on the edits of slave messages *)

\* edits of the slave chats that are rendered
EditMessages == {msg \in MessagesOf({TRUE}, {FALSE}, {NoTarget}, {"ok"}) : TRUE}

\* C29: an edit of a slave message that has a row for its slave message id
\* and chat replaces the message named by master_msg_id_alt of a row if
\* set, else by its master_msg_id; with no row the edit has no message to
\* replace and is sent as a new message.
C29_EditTarget ==
    [][\A msg \in EditMessages :
          (get_slave_msg_dest(assoc, msg.chat).tg_dest # None /\ send_message(msg)) =>
              IF RowsOfSlave(msg.uid, msg.chat) = {}
              THEN /\ out'.old_msg_id = None
                   /\ out'.rendered = out'.tg_dest \o Dot \o IdStr(tg_next)
                   /\ tg_next' = tg_next + 1
              ELSE \E r \in RowsOfSlave(msg.uid, msg.chat) :
                     LET effective == IF r.master_msg_id_alt # None
                                      THEN r.master_msg_id_alt ELSE r.master_msg_id
                     IN  /\ out'.old_msg_id = message_id_str_to_id(effective)
                         /\ msg.inplace => out'.rendered = effective /\ tg_next' = tg_next]_vars

\* an edit was shown in place of the message an earlier edit had been sent
\* as: the row carried a master_msg_id_alt
C29_Witness ==
    /\ out.kind = "outbound"
    /\ out.edit /\ ~out.status
    /\ out.result = "sent"
    /\ out.found
    /\ \E r \in msglog :
           /\ r.slave_message_id = out.uid /\ r.slave_origin_uid = out.chat
           /\ r.master_msg_id_alt # None
           /\ r.master_msg_id_alt # r.master_msg_id
           /\ out.old_msg_id = message_id_str_to_id(r.master_msg_id_alt)
           /\ out.rendered = r.master_msg_id_alt

\* an edit found no row and was sent as a new message
C29_WitnessNew ==
    /\ out.kind = "outbound"
    /\ out.edit /\ ~out.status
    /\ out.result = "sent"
    /\ ~out.found
    /\ out.old_msg_id = None

-----------------------------------------------------------------------------
(* Claims on the order of the writes *)

\* the log after the writer has applied a task
Applied(t) ==
    IF t.fn = "add_msg_log" THEN add_msg_log(msglog, t.kw, clock).log
    ELSE add_or_update_message_log(msglog, t, clock)

-----------------------------------------------------------------------------
(* Claims on deliveries the slave fails or is asked to undo *)

\* C31: when the slave raises or returns no message id for an inbound message
\* that reached type processing, the failure is reported to the user, and a
\* write of a pending record (one with no slave-side id) is issued; a write is
\* issued for every such message but an edit that became a removal.
C31_FailureSurfacedAndLogged ==
    [][\A u \in DeliveryUpdates :
          (Inbound(u) /\ out'.result \in {"relayed", "error"}) =>
              /\ Len(queue') = Len(queue) + 1
              /\ queue'[Len(queue')].fn = "add_or_update_message_log"
              /\ u.outcome \in {"raise", "nouid"} =>
                     /\ out'.result = "error"
                     /\ ~Truthy(queue'[Len(queue')].uid)]_vars

\* C32: an accepted inbound edit whose text starts with the delete flag sends
\* a removal request for the slave message of its record, is not relayed, and
\* the record of the message leaves the log (at once or by a queued write).
C32_DeleteFlag ==
    [][\A u \in DeliveryUpdates :
          (Inbound(u) /\ u.edited /\ StartsWith(u.text, DELETE_FLAG)
              /\ out'.result \notin {"rejected", "no_channel"} /\ u.outcome \in {"ok", "nouid"}) =>
              /\ out'.removal
              /\ out'.sent_uid = RowOf(msglog, message_id_to_str(u.chat, u.message_id)).slave_message_id
              /\ ~out'.sent
              /\ \/ RowOf(msglog', message_id_to_str(u.chat, u.message_id)) = NoRow
                 \/ queue' # queue]_vars

-----------------------------------------------------------------------------
(* Claims on the removal command *)

\* C33: the removal request is sent only for a reply to a message that has a
\* record; when the request raises, the master-side copy is kept and the
\* error is told to the user; the master-side copy is deleted only when the
\* request returned and prevent_message_removal is off.
C33_DeleteCommand ==
    [][\A c \in Commands :
          delete_message(c) =>
              /\ out'.removal =>
                     /\ c.reply_to # None
                     /\ RowOf(msglog, message_id_to_str(c.chat, c.reply_to)) # NoRow
              /\ (out'.removal /\ c.status = "raise") => (~out'.deleted /\ out'.error)
              /\ out'.deleted =>
                     (out'.removal /\ c.status = "ok" /\ ~flags.prevent_message_removal)]_vars

\* the removal request of a reply to a recorded message raised: the error is
\* told and the copy is kept, with removal allowed by the configuration
C33_Witness ==
    /\ out.kind = "delete_message" /\ out.found /\ out.removal
    /\ out.status = "raise" /\ ~out.prevent /\ out.error /\ ~out.deleted

\* the request returned and the copy is gone
C33_WitnessDeleted ==
    /\ out.kind = "delete_message" /\ out.removal /\ out.status = "ok" /\ out.deleted

\* C38: a removal command that replies to a message whose record holds the
\* pending sentinel as slave_message_id sends no removal request and is
\* answered "not found", as for a message with no record.
C38_NeverDelivered ==
    [][\A c \in Commands :
          (/\ delete_message(c)
           /\ c.reply_to # None
           /\ LET row == RowOf(msglog, message_id_to_str(c.chat, c.reply_to))
              IN  row = NoRow \/ IsSentinel(row.slave_message_id)) =>
              (~out'.removal /\ out'.result = "not_found")]_vars

-----------------------------------------------------------------------------
(* Claims on the footer of reactions *)

\* C35: the footer is the empty string when the reaction map is empty or no
\* reaction has a reactor; otherwise it is "[", the reactions that have a
\* reactor, each as name, "x" and count, separated by ", ", and "]".
C35_Footer ==
    out.kind = "footer" =>
        LET shown == SelectSeq(out.reactions, LAMBDA e : e.n > 0)
            f == out.footer
        IN  IF shown = <<>>
            THEN f = <<>>
            ELSE /\ Len(f) = 4 * Len(shown) + 1
                 /\ f[1] = "[" /\ f[Len(f)] = "]"
                 /\ \A i \in 1..Len(shown) :
                        /\ f[4 * i - 2] = shown[i].k
                        /\ f[4 * i - 1] = "x"
                        /\ f[4 * i] = ToString(shown[i].n)
                        /\ i > 1 => f[4 * i - 3] = ", "

-----------------------------------------------------------------------------
(* Claims on muted messages *)

\* the slave chat is linked to the mute chat
LinkedToMute(chat) ==
    linksFromSlave(assoc, chat) # <<>> /\ linksFromSlave(assoc, chat)[1] = MUTE_CHAT_ID

C34_WitnessSilent ==
    /\ out.kind = "outbound" /\ out.result = "sent" /\ out.silent
    /\ flags.your_message_on_slave = "normal" /\ flags.message_muted_on_slave = "silent"
    /\ queue # <<>>

\* a message of a chat linked to the mute chat was dropped
C34_WitnessMuteChat ==
    /\ out.kind = "outbound" /\ out.result = "muted" /\ ~out.muted
    /\ out.tg_chat = MUTE_CHAT_ID

-----------------------------------------------------------------------------
(* Claims on repeated edits and on messages sent as new *)

\* C36: every edit of a slave message that has a record hands the queue an
\* update keyed by the master_msg_id of that record, also when the record
\* holds a master_msg_id_alt set by an earlier edit.
C36_EditsStayCorrelated ==
    [][\A msg \in EditMessages :
          (/\ send_message(msg)
           /\ RowsOfSlave(msg.uid, msg.chat) # {}
           /\ out'.result = "sent") =>
              /\ Len(queue') = Len(queue) + 1
              /\ queue'[Len(queue')].kw.update
              /\ \E r \in RowsOfSlave(msg.uid, msg.chat) :
                     queue'[Len(queue')].kw.master_msg_id = r.master_msg_id]_vars

\* C37: once the writer has applied the write of a rendered slave message,
\* the log holds a row for its slave_message_id and slave_origin_uid, also
\* for an edit whose original was not found and which was sent as new.
C37_RenderedIsRecorded ==
    [][(queue # <<>> /\ Head(queue).fn = "add_msg_log" /\ Writer) =>
          \E r \in msglog' :
              /\ r.slave_message_id = Head(queue).kw.slave_message_id
              /\ r.slave_origin_uid = Head(queue).kw.slave_origin_uid]_vars

-----------------------------------------------------------------------------
(* Claims on updates around the shutdown of the worker *)

\* C39: an update that enqueue_message took without the reply that the
\* worker is not running is eventually processed by the worker, whatever
\* stop_worker does meanwhile (set aside a worker that died of an error).
C39_NoUpdateLost ==
    \A u \in 1..MaxUpdates :
        (out.kind = "enqueue" /\ out.update = u /\ ~out.notified)
            ~> (\/ \E i \in DOMAIN handled : handled[i] = u
                \/ message_worker_thread.state = "died")

-----------------------------------------------------------------------------
(* Claims on the frame of link *)

\* C40: link(m, s, allow_multiple) leaves every link (m2, s2) with s2 # s and
\* (m2 # m or allow_multiple) as it was, present or absent; after it no other
\* master holds a link to s; and the store never holds the same (master,
\* slave) row twice.
C40_LinkFrame ==
    /\ [](\A i, j \in DOMAIN assoc : assoc[i] = assoc[j] => i = j)
    /\ [][\A m \in MasterUids, s \in SlaveUids, multi \in BOOLEAN :
            Link(m, s, multi) =>
                /\ \A m2 \in MasterUids, s2 \in SlaveUids :
                       (s2 # s /\ (m2 # m \/ multi)) =>
                           (Row(m2, s2) \in RowSet(assoc') <=> Row(m2, s2) \in RowSet(assoc))
                /\ \A m2 \in MasterUids \ {m} : Row(m2, s) \notin RowSet(assoc')
                /\ Row(m, s) \in RowSet(assoc')]_vars

\* link(m, s, allow_multiple=true) has run on a master that held another
\* slave, for a slave another master held: the other slave is still linked
\* to m, and s is linked to m alone
C40_Witness ==
    /\ out.kind = "link" /\ out.multiple_slave
    /\ Len(out.before) = 1 /\ out.before[1] # out.slave_uid
    /\ Len(out.owner) = 1 /\ out.owner[1] # out.master_uid
    /\ Row(out.master_uid, out.before[1]) \in RowSet(assoc)
    /\ linksFromSlave(assoc, out.slave_uid) = <<out.master_uid>>

=============================================================================
